---- MODULE Spec2Model ----
(***************************************************************************)
(* Model of the dbaas-operator reconciliation and delegation engine:       *)
(* the DatabaseCluster controller, the OpsRequest controller, the provider *)
(* factory and the CloudNativePG (CNPG) reference provider.                *)
(*                                                                         *)
(* One DatabaseCluster ("db"), its CNPG child Cluster of the same name,    *)
(* one OpsRequest ("op") that references the cluster and the set of CNPG   *)
(* Backup objects live in the record store.  A reconciliation pass is one  *)
(* action; the store call at which a pass may fail is an input of the      *)
(* action.                                                                 *)
(***************************************************************************)
EXTENDS Integers, Sequences, FiniteSets, TLC

VARIABLES
    cluster,   \* the DatabaseCluster record
    child,     \* the CNPG Cluster record
    ops,       \* the OpsRequest record
    backups,   \* names of the CNPG Backup objects
    now,       \* wall clock, in seconds
    queued,    \* whether the OpsRequest controller's work queue holds the key
    last,      \* observation of the latest pass
    hist       \* observation of the whole run

vars == <<cluster, child, ops, backups, now, queued, last, hist>>

----------------------------------------------------------------------------
(* Bounds *)

MaxTime == 2          \* the clock runs 0..MaxTime
MaxGeneration == 2    \* the user edits the cluster spec MaxGeneration-1 times
MaxDispatch == 2      \* the dispatch counter saturates here
MaxStreak == 2        \* the counter of back-to-back converged passes saturates here
MaxCleanups == 2      \* the counter of successful Cleanup calls saturates here

----------------------------------------------------------------------------
(* Optional values (Go pointers): <<>> is nil, <<x>> points to x *)

Nil == <<>>
Some(x) == <<x>>

----------------------------------------------------------------------------
(* Values *)

Finalizer == "dbaas.io/finalizer"
ForeignFinalizer == "example.com/hold"
HealthyPhase == "Cluster in healthy state"
CNPGPhases == {"", "Creating primary instance", HealthyPhase, "Upgrading cluster"}
\* The declared cluster configurations: engine type, data source, sub-specs.
ClusterConfigs ==
    {[engineType |-> "postgresql", dataSource |-> "none", features |-> {}],
     [engineType |-> "postgresql", dataSource |-> "none",
      features |-> {"proxy", "monitoring", "backup"}],
     [engineType |-> "postgresql", dataSource |-> "backup", features |-> {}],
     [engineType |-> "postgresql", dataSource |-> "clone", features |-> {}],
     [engineType |-> "mongodb", dataSource |-> "none", features |-> {}]}
OpsTypes == {"Start", "Stop", "Restart", "Switchover", "HorizontalScaling",
             "VerticalScaling", "VolumeExpansion", "Reconfiguring", "Upgrade",
             "Backup", "Restore", "Expose", "RebuildInstance", "Custom"}
UnknownOpsType == "Bogus"
TTLs == {Nil, Some(1)}

ClusterName == "db"
OpsName == "op"
ClusterSize == 3
EngineVersion == "16"
ScaleReplicas == 5
TargetVersion == "17"

NoChild == [exists |-> FALSE, instances |-> 0, image |-> <<>>,
            resources |-> "", storage |-> "", parameters |-> {},
            bootstrap |-> "", managed |-> "", podMonitor |-> FALSE,
            backup |-> "", labels |-> {}, annotations |-> {},
            owner |-> "", phase |-> "", condition |-> ""]

\* The message of the first condition the CNPG operator may put on the child.
ChildConditions == {"", "waiting for primary"}

NoStatus == [phase |-> "", ready |-> FALSE, observedGeneration |-> 0,
             backup |-> Nil, monitoring |-> Nil, proxy |-> Nil, message |-> ""]

\* A pass: the delegate methods it invoked, the store calls it made, whether
\* it reached executeOperation, the failed store calls an operation pass met,
\* the failure that ended it ("" when none did: a fault's name for a failed
\* store call, a step's name otherwise), its result and the requested requeue
\* delay.
NoPass == [ctrl |-> "none", calls |-> <<>>, io |-> <<>>, dispatched |-> FALSE,
           met |-> {}, failedAt |-> "", err |-> "", result |-> "none",
           requeueAfter |-> 0]

----------------------------------------------------------------------------
(* controllers/databasecluster_controller.go: helpers *)

\* A faulty membership test that never finds the string.
containsStringNever(slice, s) == FALSE

RECURSIVE containsString(_, _)
containsString(slice, s) ==
    IF slice = <<>> THEN FALSE
    ELSE IF Head(slice) = s THEN TRUE
    ELSE containsString(Tail(slice), s)

RECURSIVE removeString(_, _)
removeString(slice, s) ==
    IF slice = <<>> THEN <<>>
    ELSE IF Head(slice) # s THEN <<Head(slice)>> \o removeString(Tail(slice), s)
    ELSE removeString(Tail(slice), s)

----------------------------------------------------------------------------
(* provider factory *)

\* A faulty factory that hands the CNPG provider to every engine type.
GetProviderForAny(engineType) == [ok |-> TRUE, err |-> ""]

\* A faulty factory whose default case hands out the CNPG provider.
GetProviderByDefault(engineType) ==
    IF engineType = "postgresql" THEN [ok |-> TRUE, err |-> ""]
    ELSE IF engineType = "mongodb" THEN [ok |-> FALSE, err |-> "MongoDB provider not implemented yet"]
    ELSE IF engineType = "mysql" THEN [ok |-> FALSE, err |-> "MySQL provider not implemented yet"]
    ELSE IF engineType = "kafka" THEN [ok |-> FALSE, err |-> "Kafka provider not implemented yet"]
    ELSE [ok |-> TRUE, err |-> ""]

GetProvider(engineType) ==
    IF engineType = "postgresql" THEN [ok |-> TRUE, err |-> ""]
    ELSE IF engineType = "mongodb" THEN [ok |-> FALSE, err |-> "MongoDB provider not implemented yet"]
    ELSE IF engineType = "mysql" THEN [ok |-> FALSE, err |-> "MySQL provider not implemented yet"]
    ELSE IF engineType = "kafka" THEN [ok |-> FALSE, err |-> "Kafka provider not implemented yet"]
    ELSE [ok |-> FALSE, err |-> "unsupported engine type: " \o engineType]

----------------------------------------------------------------------------
(* CNPG provider *)

\* A faulty table that reports a phase text it does not name as Failed.
mapCNPGPhaseFailingUnknown(cnpgPhase) ==
    CASE cnpgPhase = HealthyPhase -> "Ready"
      [] cnpgPhase = "Creating primary instance" -> "Initializing"
      [] cnpgPhase = "Upgrading cluster" -> "Updating"
      [] OTHER -> "Failed"

mapCNPGPhaseToDBaaSPhase(cnpgPhase) ==
    CASE cnpgPhase = HealthyPhase -> "Ready"
      [] cnpgPhase = "Creating primary instance" -> "Initializing"
      [] cnpgPhase = "Upgrading cluster" -> "Updating"
      [] OTHER -> "Initializing"

\* A faulty Status that leaves the observed generation at its zero value.
StatusUnobserved(cl, ch, F) ==
    IF "statusGet" \in F THEN [err |-> TRUE, failedAt |-> "statusGet", status |-> NoStatus]
    ELSE IF ~ch.exists THEN [err |-> TRUE, failedAt |-> "Status", status |-> NoStatus]
    ELSE [err |-> FALSE, failedAt |-> "",
          status |-> [phase |-> IF ch.phase = "" THEN "Initializing"
                                ELSE mapCNPGPhaseToDBaaSPhase(ch.phase),
                      ready |-> ch.phase = HealthyPhase,
                      observedGeneration |-> 0,
                      backup |-> IF "backup" \in cl.features
                                 THEN Some([lastBackupTime |-> Nil]) ELSE Nil,
                      monitoring |-> IF "monitoring" \in cl.features
                                     THEN Some([enabled |-> TRUE, ready |-> TRUE])
                                     ELSE Nil,
                      proxy |-> IF "proxy" \in cl.features
                                THEN Some([ready |-> TRUE]) ELSE Nil,
                      message |-> ch.condition]]

\* CNPGProvider.Status.  F is the set of store calls that fail in this pass;
\* "statusGet" is the read of the child.
Status(cl, ch, F) ==
    IF "statusGet" \in F THEN [err |-> TRUE, failedAt |-> "statusGet", status |-> NoStatus]
    ELSE IF ~ch.exists THEN [err |-> TRUE, failedAt |-> "Status", status |-> NoStatus]
    ELSE [err |-> FALSE, failedAt |-> "",
          status |-> [phase |-> IF ch.phase = "" THEN "Initializing"
                                ELSE mapCNPGPhaseToDBaaSPhase(ch.phase),
                      ready |-> ch.phase = HealthyPhase,
                      observedGeneration |-> cl.generation,
                      backup |-> IF "backup" \in cl.features
                                 THEN Some([lastBackupTime |-> Nil]) ELSE Nil,
                      monitoring |-> IF "monitoring" \in cl.features
                                     THEN Some([enabled |-> TRUE, ready |-> TRUE])
                                     ELSE Nil,
                      proxy |-> IF "proxy" \in cl.features
                                THEN Some([ready |-> TRUE]) ELSE Nil,
                      message |-> ch.condition]]

\* A faulty Cleanup that reports the not-found of its Get as an error.
CleanupStrict(ch, F) ==
    IF "cleanupGet" \in F
    THEN [err |-> TRUE, failedAt |-> "cleanupGet", child |-> ch, io |-> <<"get:child">>]
    ELSE IF ~ch.exists
    THEN [err |-> TRUE, failedAt |-> "Cleanup", child |-> ch, io |-> <<"get:child">>]
    ELSE IF "cleanupDelete" \in F
    THEN [err |-> TRUE, failedAt |-> "cleanupDelete", child |-> ch,
          io |-> <<"get:child", "delete:child">>]
    ELSE [err |-> FALSE, failedAt |-> "", child |-> NoChild,
          io |-> <<"get:child", "delete:child">>]

\* CNPGProvider.Cleanup: get the child, ignore not-found, delete it.
Cleanup(ch, F) ==
    IF "cleanupGet" \in F
    THEN [err |-> TRUE, failedAt |-> "cleanupGet", child |-> ch, io |-> <<"get:child">>]
    ELSE IF ~ch.exists
    THEN [err |-> FALSE, failedAt |-> "", child |-> ch, io |-> <<"get:child">>]
    ELSE IF "cleanupDelete" \in F
    THEN [err |-> TRUE, failedAt |-> "cleanupDelete", child |-> ch,
          io |-> <<"get:child", "delete:child">>]
    ELSE [err |-> FALSE, failedAt |-> "", child |-> NoChild,
          io |-> <<"get:child", "delete:child">>]

\* A faulty hook that asks for the delay whatever phase the child reports.
PreReconcileHookEager(cl, ch, F) ==
    IF cl.dataSource = "backup"
    THEN IF "hookGet" \in F
         THEN [err |-> TRUE, failedAt |-> "hookGet", requeueAfter |-> 0,
               io |-> <<"get:child">>]
         ELSE IF ~ch.exists
         THEN [err |-> TRUE, failedAt |-> "PreReconcileHook", requeueAfter |-> 0,
               io |-> <<"get:child">>]
         ELSE [err |-> FALSE, failedAt |-> "", requeueAfter |-> 5, io |-> <<"get:child">>]
    ELSE [err |-> FALSE, failedAt |-> "", requeueAfter |-> 0, io |-> <<>>]

\* CNPGProvider.PreReconcileHook: the requested delay in seconds, or an error.
PreReconcileHook(cl, ch, F) ==
    IF cl.dataSource = "backup"
    THEN IF "hookGet" \in F
         THEN [err |-> TRUE, failedAt |-> "hookGet", requeueAfter |-> 0,
               io |-> <<"get:child">>]
         ELSE IF ~ch.exists
         THEN [err |-> TRUE, failedAt |-> "PreReconcileHook", requeueAfter |-> 0,
               io |-> <<"get:child">>]
         ELSE IF ch.phase # HealthyPhase
         THEN [err |-> FALSE, failedAt |-> "", requeueAfter |-> 5, io |-> <<"get:child">>]
         ELSE [err |-> FALSE, failedAt |-> "", requeueAfter |-> 0, io |-> <<"get:child">>]
    ELSE [err |-> FALSE, failedAt |-> "", requeueAfter |-> 0, io |-> <<>>]

----------------------------------------------------------------------------
(* CNPG applier: each step transforms the child record under construction *)

NewApplier(cl) ==
    [NoChild EXCEPT !.exists = TRUE, !.instances = cl.clusterSize]

Metadata(cl, b) ==
    [b EXCEPT !.labels = cl.labels \cup {<<"dbaas.io/cluster", ClusterName>>,
                                         <<"dbaas.io/engine", cl.engineType>>},
              !.annotations = cl.annotations]

Engine(cl, b) ==
    [b EXCEPT !.image = <<"ghcr.io/cloudnative-pg/postgresql", cl.version>>,
              !.storage = cl.storage,
              !.resources = IF cl.resources # "" THEN cl.resources ELSE "default",
              !.parameters = cl.config,
              !.owner = ClusterName]

Proxy(cl, b) ==
    IF "proxy" \in cl.features THEN [b EXCEPT !.managed = "app"] ELSE b

Monitoring(cl, b) ==
    IF "monitoring" \in cl.features THEN [b EXCEPT !.podMonitor = TRUE] ELSE b

\* No scheduling policy is declared on the modelled cluster.
PodSchedulingPolicy(cl, b) == b

ApplierBackup(cl, b) ==
    IF "backup" \in cl.features THEN [b EXCEPT !.backup = "retention"] ELSE b

DataSource(cl, b) ==
    IF cl.dataSource = "backup" THEN [b EXCEPT !.bootstrap = "recovery"]
    ELSE IF cl.dataSource = "clone" THEN [b EXCEPT !.bootstrap = "pg_basebackup"]
    ELSE [b EXCEPT !.bootstrap = "initdb"]

DataImport(cl, b) == b

ApplierSteps == <<"Metadata", "Engine", "Proxy", "Monitoring",
                  "PodSchedulingPolicy", "Backup", "DataSource", "DataImport">>

\* The fault that makes each step return an error, in the order of the
\* steps.  Of the CNPG applier's steps only Engine can (SetControllerReference);
\* the controller takes an error from any step of any applier.
StepFaults == <<"applier:Metadata", "applier", "applier:Proxy",
                "applier:Monitoring", "applier:PodSchedulingPolicy",
                "applier:Backup", "applier:DataSource", "applier:DataImport">>

\* The text applyTransformations wraps the step's error in.
StepMessage(step) ==
    CASE step = "Metadata" -> "failed to apply metadata"
      [] step = "Engine" -> "failed to apply engine"
      [] step = "Proxy" -> "failed to apply proxy"
      [] step = "Monitoring" -> "failed to apply monitoring"
      [] step = "PodSchedulingPolicy" -> "failed to apply pod scheduling policy"
      [] step = "Backup" -> "failed to apply backup"
      [] step = "DataSource" -> "failed to apply data source"
      [] step = "DataImport" -> "failed to apply data import"

\* The record under construction after the first k steps.
ApplierStage(cl, k) ==
    LET b0 == NewApplier(cl)
        b1 == Metadata(cl, b0)
        b2 == Engine(cl, b1)
        b3 == Proxy(cl, b2)
        b4 == Monitoring(cl, b3)
        b5 == PodSchedulingPolicy(cl, b4)
        b6 == ApplierBackup(cl, b5)
        b7 == DataSource(cl, b6)
        b8 == DataImport(cl, b7)
    IN CASE k = 0 -> b0
         [] k = 1 -> b1
         [] k = 2 -> b2
         [] k = 3 -> b3
         [] k = 4 -> b4
         [] k = 5 -> b5
         [] k = 6 -> b6
         [] k = 7 -> b7
         [] k = 8 -> b8

\* The first step that fails under F, or 0.
FirstFailing(F) ==
    LET failing == {i \in 1..Len(StepFaults) : StepFaults[i] \in F}
    IN IF F = {} \/ failing = {} THEN 0
       ELSE CHOOSE i \in failing : \A j \in failing : i <= j

\* A faulty applyTransformations that runs the remaining steps after a step
\* has failed.
applyTransformationsThrough(cl, F) ==
    LET k == FirstFailing(F)
    IN IF k = 0
       THEN [err |-> FALSE, msg |-> "", built |-> ApplierStage(cl, 8),
             calls |-> ApplierSteps]
       ELSE [err |-> TRUE, msg |-> StepMessage(ApplierSteps[k]),
             built |-> ApplierStage(cl, 8), calls |-> ApplierSteps]

\* applyTransformations: the steps in order; the first step that returns an
\* error ends the sequence, and no later step runs.
applyTransformations(cl, F) ==
    LET k == FirstFailing(F)
    IN IF k = 0
       THEN [err |-> FALSE, msg |-> "", built |-> ApplierStage(cl, 8),
             calls |-> ApplierSteps]
       ELSE [err |-> TRUE, msg |-> StepMessage(ApplierSteps[k]),
             built |-> ApplierStage(cl, k - 1), calls |-> SubSeq(ApplierSteps, 1, k)]

\* A faulty create-or-update that takes 'already exists' for success and
\* leaves the existing child as it is.
createOrKeepChildCluster(ch, built, F) ==
    IF "childCreate" \in F
    THEN [err |-> TRUE, failedAt |-> "childCreate", child |-> ch,
          io |-> <<"create:child">>]
    ELSE IF ~ch.exists
    THEN [err |-> FALSE, failedAt |-> "", child |-> [built EXCEPT !.phase = ""],
          io |-> <<"create:child">>]
    ELSE [err |-> FALSE, failedAt |-> "", child |-> ch, io |-> <<"create:child">>]

\* createOrUpdateChildCluster: create; on already-exists update; any other
\* error of the create, and any error of the update, is returned.  The update
\* stores the built record's desired state and keeps what the CNPG operator
\* reported on the child.
createOrUpdateChildCluster(ch, built, F) ==
    IF "childCreate" \in F
    THEN [err |-> TRUE, failedAt |-> "childCreate", child |-> ch,
          io |-> <<"create:child">>]
    ELSE IF ~ch.exists
    THEN [err |-> FALSE, failedAt |-> "", child |-> [built EXCEPT !.phase = ""],
          io |-> <<"create:child">>]
    ELSE IF "childUpdate" \in F
    THEN [err |-> TRUE, failedAt |-> "childUpdate", child |-> ch,
          io |-> <<"create:child", "update:child">>]
    ELSE [err |-> FALSE, failedAt |-> "",
          child |-> [built EXCEPT !.phase = ch.phase,
                                  !.condition = ch.condition],
          io |-> <<"create:child", "update:child">>]

----------------------------------------------------------------------------
(* DatabaseCluster controller *)

\* A finished pass: the records it leaves in the store and what it did.
Outcome(cl, ch, calls, io, failedAt, result, requeueAfter) ==
    [cluster |-> cl, child |-> ch,
     pass |-> [ctrl |-> "cluster", calls |-> calls, io |-> io,
               dispatched |-> FALSE, met |-> {}, failedAt |-> failedAt,
               err |-> "", result |-> result,
               requeueAfter |-> requeueAfter]]

\* The store's Update of a record marked for deletion: the record goes away
\* with its last finalizer.
StoreUpdateCluster(cl) ==
    IF cl.deleting /\ cl.finalizers = <<>> THEN [cl EXCEPT !.exists = FALSE] ELSE cl

\* A faulty handleDeletion that drops the finalizer without the cleanup.
handleDeletionSkippingCleanup(cl, ch, F, calls, io) ==
    IF cl.finalizers # removeString(cl.finalizers, Finalizer)
    THEN Outcome(StoreUpdateCluster(
                     [cl EXCEPT !.finalizers = removeString(cl.finalizers, Finalizer)]),
                 ch, calls, Append(io, "update:cluster"), "", "ok", 0)
    ELSE Outcome(cl, ch, calls, io, "", "ok", 0)

\* handleDeletion: cleanup, then remove the finalizer.
handleDeletion(cl, ch, F, calls, io) ==
    IF containsString(cl.finalizers, Finalizer)
    THEN LET c == Cleanup(ch, F)
             calls1 == Append(calls, "Cleanup")
             io1 == io \o c.io
             cl1 == [cl EXCEPT !.finalizers = removeString(cl.finalizers, Finalizer)]
         IN IF c.err THEN Outcome(cl, c.child, calls1, io1, c.failedAt, "error", 0)
            ELSE IF "finalizerUpdate" \in F
            THEN Outcome(cl, c.child, calls1, Append(io1, "update:cluster"),
                         "finalizerUpdate", "error", 0)
            ELSE Outcome(StoreUpdateCluster(cl1), c.child, calls1,
                         Append(io1, "update:cluster"), "", "ok", 0)
    ELSE Outcome(cl, ch, calls, io, "", "ok", 0)

\* A faulty updateStatus that keeps what the old status says wherever the
\* provider's status says nothing.
updateStatusMerging(cl, ch, F, calls, io) ==
    LET st == Status(cl, ch, F)
        calls1 == Append(calls, "Status")
        io1 == Append(io, "get:child")
        keep(new, old, empty) == IF new = empty THEN old ELSE new
        merged == [st.status EXCEPT
                     !.backup = keep(@, cl.status.backup, Nil),
                     !.monitoring = keep(@, cl.status.monitoring, Nil),
                     !.proxy = keep(@, cl.status.proxy, Nil),
                     !.message = keep(@, cl.status.message, "")]
    IN IF st.err THEN Outcome(cl, ch, calls1, io1, st.failedAt, "error", 0)
       ELSE IF "statusUpdate" \in F
       THEN Outcome(cl, ch, calls1, Append(io1, "update:cluster.status"),
                    "statusUpdate", "error", 0)
       ELSE Outcome([cl EXCEPT !.status = merged], ch, calls1,
                    Append(io1, "update:cluster.status"), "", "requeue", 30)

\* A faulty updateStatus that stores the whole record, with the resources the
\* Engine step defaulted written into the declared ones.
updateStatusWholeRecord(cl, ch, F, calls, io) ==
    LET st == Status(cl, ch, F)
        calls1 == Append(calls, "Status")
        io1 == Append(io, "get:child")
    IN IF st.err THEN Outcome(cl, ch, calls1, io1, st.failedAt, "error", 0)
       ELSE IF "statusUpdate" \in F
       THEN Outcome(cl, ch, calls1, Append(io1, "update:cluster.status"),
                    "statusUpdate", "error", 0)
       ELSE Outcome([cl EXCEPT !.status = st.status, !.resources = ch.resources],
                    ch, calls1, Append(io1, "update:cluster.status"), "",
                    "requeue", 30)

\* A faulty updateStatus that asks for the next pass only when the status it
\* stored differs from the one it found.
updateStatusOnChange(cl, ch, F, calls, io) ==
    LET st == Status(cl, ch, F)
        calls1 == Append(calls, "Status")
        io1 == Append(io, "get:child")
        changed == st.status # cl.status
    IN IF st.err THEN Outcome(cl, ch, calls1, io1, st.failedAt, "error", 0)
       ELSE IF "statusUpdate" \in F
       THEN Outcome(cl, ch, calls1, Append(io1, "update:cluster.status"),
                    "statusUpdate", "error", 0)
       ELSE Outcome([cl EXCEPT !.status = st.status], ch, calls1,
                    Append(io1, "update:cluster.status"), "",
                    IF changed THEN "requeue" ELSE "ok",
                    IF changed THEN 30 ELSE 0)


\* updateStatus: the provider's status replaces the record's status.
updateStatus(cl, ch, F, calls, io) ==
    LET st == Status(cl, ch, F)
        calls1 == Append(calls, "Status")
        io1 == Append(io, "get:child")
    IN IF st.err THEN Outcome(cl, ch, calls1, io1, st.failedAt, "error", 0)
       ELSE IF "statusUpdate" \in F
       THEN Outcome(cl, ch, calls1, Append(io1, "update:cluster.status"),
                    "statusUpdate", "error", 0)
       ELSE Outcome([cl EXCEPT !.status = st.status], ch, calls1,
                    Append(io1, "update:cluster.status"), "", "requeue", 30)

\* A faulty Converge that goes on to the child when the finalizer was not
\* stored.
ConvergeWithoutFinalizer(cl, ch, F, calls, io) ==
    LET add == cl.finalizers = removeString(cl.finalizers, Finalizer)
        stored == add /\ "finalizerUpdate" \notin F
        cl1 == IF stored THEN [cl EXCEPT !.finalizers = Append(cl.finalizers, Finalizer)]
               ELSE cl
        io1 == IF add THEN Append(io, "update:cluster") ELSE io
        ap == applyTransformations(cl1, F)
        calls2 == calls \o ap.calls
        cu == createOrUpdateChildCluster(ch, ap.built, F)
    IN IF ap.err
       THEN [Outcome(cl1, ch, calls2, io1, "applier", "error", 0)
               EXCEPT !.pass.err = ap.msg]
       ELSE IF cu.err
       THEN Outcome(cl1, ch, calls2, io1 \o cu.io, cu.failedAt, "error", 0)
       ELSE updateStatus(cl1, cu.child, F, calls2, io1 \o cu.io)

\* Steps 5-9 of the pass: finalizer, applier, create-or-update, status.
Converge(cl, ch, F, calls, io) ==
    LET add == ~containsString(cl.finalizers, Finalizer)
        cl1 == IF add THEN [cl EXCEPT !.finalizers = Append(cl.finalizers, Finalizer)]
               ELSE cl
        io1 == IF add THEN Append(io, "update:cluster") ELSE io
        ap == applyTransformations(cl1, F)
        calls2 == calls \o ap.calls
        cu == createOrUpdateChildCluster(ch, ap.built, F)
    IN IF add /\ "finalizerUpdate" \in F
       THEN Outcome(cl, ch, calls, io1, "finalizerUpdate", "error", 0)
       ELSE IF ap.err
       THEN [Outcome(cl1, ch, calls2, io1, "applier", "error", 0)
               EXCEPT !.pass.err = ap.msg]
       ELSE IF cu.err
       THEN Outcome(cl1, ch, calls2, io1 \o cu.io, cu.failedAt, "error", 0)
       ELSE updateStatus(cl1, cu.child, F, calls2, io1 \o cu.io)

\* A faulty Reconcile that returns the not-found of its read as an error.
ClusterReconcileStrict(cl, ch, F) ==
    LET prov == GetProvider(cl.engineType)
        hook == PreReconcileHook(cl, ch, F)
        io1 == <<"get:cluster">> \o hook.io
    IN IF "getCluster" \in F
       THEN Outcome(cl, ch, <<>>, <<"get:cluster">>, "getCluster", "error", 0)
       ELSE IF ~cl.exists
       THEN Outcome(cl, ch, <<>>, <<"get:cluster">>, "NotFound", "error", 0)
       ELSE IF ~prov.ok
       THEN [Outcome(cl, ch, <<>>, <<"get:cluster">>, "GetProvider", "error", 0)
               EXCEPT !.pass.err = prov.err]
       ELSE IF hook.err
       THEN Outcome(cl, ch, <<"PreReconcileHook">>, io1, hook.failedAt, "error", 0)
       ELSE IF hook.requeueAfter > 0
       THEN Outcome(cl, ch, <<"PreReconcileHook">>, io1, "", "requeue", hook.requeueAfter)
       ELSE IF cl.deleting
       THEN handleDeletion(cl, ch, F, <<"PreReconcileHook">>, io1)
       ELSE Converge(cl, ch, F, <<"PreReconcileHook">>, io1)

\* A faulty Reconcile that cleans up a deleted record before it has a provider.
ClusterReconcileDeletingFirst(cl, ch, F) ==
    LET prov == GetProvider(cl.engineType)
        hook == PreReconcileHook(cl, ch, F)
        io1 == <<"get:cluster">> \o hook.io
    IN IF "getCluster" \in F
       THEN Outcome(cl, ch, <<>>, <<"get:cluster">>, "getCluster", "error", 0)
       ELSE IF ~cl.exists THEN Outcome(cl, ch, <<>>, <<"get:cluster">>, "", "ok", 0)
       ELSE IF cl.deleting /\ ~prov.ok
       THEN handleDeletion(cl, ch, F, <<>>, <<"get:cluster">>)
       ELSE IF ~prov.ok
       THEN [Outcome(cl, ch, <<>>, <<"get:cluster">>, "GetProvider", "error", 0)
               EXCEPT !.pass.err = prov.err]
       ELSE IF hook.err
       THEN Outcome(cl, ch, <<"PreReconcileHook">>, io1, hook.failedAt, "error", 0)
       ELSE IF hook.requeueAfter > 0
       THEN Outcome(cl, ch, <<"PreReconcileHook">>, io1, "", "requeue", hook.requeueAfter)
       ELSE IF cl.deleting
       THEN handleDeletion(cl, ch, F, <<"PreReconcileHook">>, io1)
       ELSE Converge(cl, ch, F, <<"PreReconcileHook">>, io1)

\* DatabaseClusterReconciler.Reconcile
ClusterReconcile(cl, ch, F) ==
    LET prov == GetProvider(cl.engineType)
        hook == PreReconcileHook(cl, ch, F)
        io1 == <<"get:cluster">> \o hook.io
    IN IF "getCluster" \in F
       THEN Outcome(cl, ch, <<>>, <<"get:cluster">>, "getCluster", "error", 0)
       ELSE IF ~cl.exists THEN Outcome(cl, ch, <<>>, <<"get:cluster">>, "", "ok", 0)
       ELSE IF ~prov.ok
       THEN [Outcome(cl, ch, <<>>, <<"get:cluster">>, "GetProvider", "error", 0)
               EXCEPT !.pass.err = prov.err]
       ELSE IF hook.err
       THEN Outcome(cl, ch, <<"PreReconcileHook">>, io1, hook.failedAt, "error", 0)
       ELSE IF hook.requeueAfter > 0
       THEN Outcome(cl, ch, <<"PreReconcileHook">>, io1, "", "requeue", hook.requeueAfter)
       ELSE IF cl.deleting
       THEN handleDeletion(cl, ch, F, <<"PreReconcileHook">>, io1)
       ELSE Converge(cl, ch, F, <<"PreReconcileHook">>, io1)

----------------------------------------------------------------------------
(* CNPG operations handler.  Each method yields the error (if any), the     *)
(* child and the backups it leaves, and the store calls it made.            *)

OpResult(err, msg, ch, bk, io) ==
    [err |-> err, msg |-> msg, child |-> ch, backups |-> bk, io |-> io]

\* Assignment to one key of an annotation or parameter map.
SetKey(m, k, v) == {e \in m : e[1] # k} \cup {<<k, v>>}

DeleteKey(m, k) == {e \in m : e[1] # k}

\* time.Time.Format(time.RFC3339)
FormatRFC3339(t) == <<"RFC3339", t>>

\* The read-modify-update every mutating method performs on the child.
GetAndUpdate(ch, bk, F, new) ==
    IF "opGet" \in F THEN OpResult(TRUE, "read failed", ch, bk, <<"get:child">>)
    ELSE IF ~ch.exists THEN OpResult(TRUE, "not found", ch, bk, <<"get:child">>)
    ELSE IF "opWrite" \in F
    THEN OpResult(TRUE, "write failed", ch, bk, <<"get:child", "update:child">>)
    ELSE OpResult(FALSE, "", new, bk, <<"get:child", "update:child">>)

Start(ch, bk, o, t, F) ==
    GetAndUpdate(ch, bk, F,
        [ch EXCEPT !.annotations = DeleteKey(@, "cnpg.io/hibernation")])

Stop(ch, bk, o, t, F) ==
    GetAndUpdate(ch, bk, F,
        [ch EXCEPT !.annotations = SetKey(@, "cnpg.io/hibernation", "on")])

Restart(ch, bk, o, t, F) ==
    GetAndUpdate(ch, bk, F,
        [ch EXCEPT !.annotations = SetKey(@, "cnpg.io/restartedAt", FormatRFC3339(t))])

Switchover(ch, bk, o, t, F) ==
    IF ~o.payload THEN OpResult(TRUE, "switchover spec is required", ch, bk, <<>>)
    ELSE GetAndUpdate(ch, bk, F,
        [ch EXCEPT !.annotations =
            SetKey(SetKey(@, "cnpg.io/forceSwitchover", FormatRFC3339(t)),
                   "cnpg.io/switchoverTarget", "db-2")])

\* A faulty HorizontalScaling that writes the child back as it read it.
HorizontalScalingIdle(ch, bk, o, t, F) ==
    IF ~o.payload THEN OpResult(TRUE, "horizontalScaling spec is required", ch, bk, <<>>)
    ELSE GetAndUpdate(ch, bk, F, ch)

\* A faulty HorizontalScaling that goes to the child without checking its payload.
HorizontalScalingUnchecked(ch, bk, o, t, F) ==
    GetAndUpdate(ch, bk, F, [ch EXCEPT !.instances = ScaleReplicas])

HorizontalScaling(ch, bk, o, t, F) ==
    IF ~o.payload THEN OpResult(TRUE, "horizontalScaling spec is required", ch, bk, <<>>)
    ELSE GetAndUpdate(ch, bk, F, [ch EXCEPT !.instances = ScaleReplicas])

VerticalScaling(ch, bk, o, t, F) ==
    IF ~o.payload THEN OpResult(TRUE, "verticalScaling spec is required", ch, bk, <<>>)
    ELSE GetAndUpdate(ch, bk, F, [ch EXCEPT !.resources = "scaled"])

VolumeExpansion(ch, bk, o, t, F) ==
    IF ~o.payload THEN OpResult(TRUE, "volumeExpansion spec is required", ch, bk, <<>>)
    ELSE GetAndUpdate(ch, bk, F, [ch EXCEPT !.storage = "20Gi"])

Reconfigure(ch, bk, o, t, F) ==
    IF ~o.payload THEN OpResult(TRUE, "reconfiguring spec is required", ch, bk, <<>>)
    ELSE GetAndUpdate(ch, bk, F,
        [ch EXCEPT !.parameters = SetKey(@, "max_connections", "200")])

Upgrade(ch, bk, o, t, F) ==
    IF ~o.payload THEN OpResult(TRUE, "upgrade spec is required", ch, bk, <<>>)
    ELSE GetAndUpdate(ch, bk, F,
        [ch EXCEPT !.image = <<"ghcr.io/cloudnative-pg/postgresql", TargetVersion>>])

\* A CNPG Backup object: its name and the cluster it refers to.
NewBackup(name) == [name |-> name, cluster |-> ClusterName]

\* A faulty Backup that always names the object after the request.
BackupNamedAfterRequest(ch, bk, o, t, F) ==
    IF "opWrite" \in F
    THEN OpResult(TRUE, "write failed", ch, bk, <<"create:backup">>)
    ELSE IF \E b \in bk : b.name = OpsName
    THEN OpResult(TRUE, "already exists", ch, bk, <<"create:backup">>)
    ELSE OpResult(FALSE, "", ch, bk \cup {NewBackup(OpsName)}, <<"create:backup">>)

\* Backup creates a CNPG Backup object named by the payload or by the request.
Backup(ch, bk, o, t, F) ==
    LET backupName == IF o.payload /\ o.backupName # "" THEN o.backupName ELSE OpsName
    IN IF "opWrite" \in F
       THEN OpResult(TRUE, "write failed", ch, bk, <<"create:backup">>)
       ELSE IF \E b \in bk : b.name = backupName
       THEN OpResult(TRUE, "already exists", ch, bk, <<"create:backup">>)
       ELSE OpResult(FALSE, "", ch, bk \cup {NewBackup(backupName)},
                     <<"create:backup">>)

Restore(ch, bk, o, t, F) ==
    IF ~o.payload THEN OpResult(TRUE, "restore spec is required", ch, bk, <<>>)
    ELSE GetAndUpdate(ch, bk, F, [ch EXCEPT !.bootstrap = "recovery:backup"])

Expose(ch, bk, o, t, F) == OpResult(FALSE, "", ch, bk, <<>>)

RebuildInstance(ch, bk, o, t, F) ==
    IF ~o.payload THEN OpResult(TRUE, "rebuildInstance spec is required", ch, bk, <<>>)
    ELSE GetAndUpdate(ch, bk, F,
        [ch EXCEPT !.annotations = SetKey(@, "cnpg.io/rebuildInstance", "db-1")])

Custom(ch, bk, o, t, F) ==
    IF ~o.payload THEN OpResult(TRUE, "custom spec is required", ch, bk, <<>>)
    ELSE OpResult(TRUE, "custom operation not implemented", ch, bk, <<>>)

\* A faulty GetStatus that reports success only for an operation whose
\* previous status shows it was polled before.
GetStatusAfterProgress(ch, o, t, F) ==
    IF "opStatusGet" \in F \/ ~ch.exists
    THEN [phase |-> "Failed", startTime |-> Nil, completionTime |-> Nil,
          message |-> "child read failed", actionLog |-> <<>>]
    ELSE LET phase == IF ch.phase = HealthyPhase /\ o.status.actionLog # <<>>
                      THEN "Succeeded" ELSE "Running"
         IN [phase |-> phase, startTime |-> Nil,
             completionTime |-> IF phase = "Succeeded" THEN Some(t) ELSE Nil,
             message |-> "",
             actionLog |-> <<[timestamp |-> t, action |-> o.type,
                              status |-> phase, message |-> ch.phase]>>]


\* CNPGOperationsHandler.GetStatus: the report always comes without an error.
GetStatus(ch, o, t, F) ==
    IF "opStatusGet" \in F \/ ~ch.exists
    THEN [phase |-> "Failed", startTime |-> Nil, completionTime |-> Nil,
          message |-> "child read failed", actionLog |-> <<>>]
    ELSE LET phase == IF ch.phase = HealthyPhase THEN "Succeeded" ELSE "Running"
         IN [phase |-> phase, startTime |-> Nil,
             completionTime |-> IF phase = "Succeeded" THEN Some(t) ELSE Nil,
             message |-> "",
             actionLog |-> <<[timestamp |-> t, action |-> o.type,
                              status |-> phase, message |-> ch.phase]>>]

----------------------------------------------------------------------------
(* OpsRequest controller *)

\* A faulty switch: the Stop case calls Start, and the default case too.
MethodForCrossed(type) ==
    CASE type = "Stop" -> "Start"
      [] type = "Reconfiguring" -> "Reconfigure"
      [] type \in {"Start", "Restart", "Switchover", "HorizontalScaling",
                   "VerticalScaling", "VolumeExpansion", "Upgrade", "Backup",
                   "Restore", "Expose", "RebuildInstance", "Custom"} -> type
      [] OTHER -> "Start"

\* executeOperation: the method the switch selects, "" for the default case.
MethodFor(type) ==
    CASE type = "Start" -> "Start"
      [] type = "Stop" -> "Stop"
      [] type = "Restart" -> "Restart"
      [] type = "Switchover" -> "Switchover"
      [] type = "HorizontalScaling" -> "HorizontalScaling"
      [] type = "VerticalScaling" -> "VerticalScaling"
      [] type = "VolumeExpansion" -> "VolumeExpansion"
      [] type = "Reconfiguring" -> "Reconfigure"
      [] type = "Upgrade" -> "Upgrade"
      [] type = "Backup" -> "Backup"
      [] type = "Restore" -> "Restore"
      [] type = "Expose" -> "Expose"
      [] type = "RebuildInstance" -> "RebuildInstance"
      [] type = "Custom" -> "Custom"
      [] OTHER -> ""

Invoke(method, ch, bk, o, t, F) ==
    CASE method = "Start" -> Start(ch, bk, o, t, F)
      [] method = "Stop" -> Stop(ch, bk, o, t, F)
      [] method = "Restart" -> Restart(ch, bk, o, t, F)
      [] method = "Switchover" -> Switchover(ch, bk, o, t, F)
      [] method = "HorizontalScaling" -> HorizontalScaling(ch, bk, o, t, F)
      [] method = "VerticalScaling" -> VerticalScaling(ch, bk, o, t, F)
      [] method = "VolumeExpansion" -> VolumeExpansion(ch, bk, o, t, F)
      [] method = "Reconfigure" -> Reconfigure(ch, bk, o, t, F)
      [] method = "Upgrade" -> Upgrade(ch, bk, o, t, F)
      [] method = "Backup" -> Backup(ch, bk, o, t, F)
      [] method = "Restore" -> Restore(ch, bk, o, t, F)
      [] method = "Expose" -> Expose(ch, bk, o, t, F)
      [] method = "RebuildInstance" -> RebuildInstance(ch, bk, o, t, F)
      [] method = "Custom" -> Custom(ch, bk, o, t, F)

executeOperation(ch, bk, o, t, F) ==
    LET method == MethodFor(o.type)
    IN IF method = ""
       THEN [res |-> OpResult(TRUE, "unsupported operation type", ch, bk, <<>>),
             calls |-> <<>>]
       ELSE [res |-> Invoke(method, ch, bk, o, t, F), calls |-> <<method>>]

\* A faulty skip test that lets a failed operation through.
FinishedOnlySucceeded(phase) == phase = "Succeeded"

\* The phases the pass skips: the operation already completed or failed.
Finished(phase) == phase \in {"Succeeded", "Failed"}

\* A faulty expiry test that ignores the TTL.
ExpiredAtOnce(t, completionTime, ttl) == t - completionTime >= 0

\* time.Since(completion) > ttl
Expired(t, completionTime, ttl) == t - completionTime > ttl

OpsOutcome(o, ch, bk, calls, io, dispatched, met, failedAt, result, requeueAfter) ==
    [ops |-> o, child |-> ch, backups |-> bk,
     pass |-> [ctrl |-> "ops", calls |-> calls, io |-> io,
               dispatched |-> dispatched, met |-> met, failedAt |-> failedAt,
               err |-> "", result |-> result, requeueAfter |-> requeueAfter]]

\* A faulty updateStatusFailed that records no completion time.
updateStatusFailedUntimed(o, mem, message, t, F, ch, bk, calls, io, dispatched, met) ==
    IF "updFailed" \in F
    THEN [ops |-> o, child |-> ch, backups |-> bk,
          pass |-> [ctrl |-> "ops", calls |-> calls,
                    io |-> Append(io, "update:ops.status"),
                    dispatched |-> dispatched, met |-> met \cup {"updFailed"},
                    failedAt |-> "updFailed", err |-> "", result |-> "error",
                    requeueAfter |-> 0]]
    ELSE [ops |-> [mem EXCEPT !.status.phase = "Failed",
                              !.status.message = message],
          child |-> ch, backups |-> bk,
          pass |-> [ctrl |-> "ops", calls |-> calls,
                    io |-> Append(io, "update:ops.status"),
                    dispatched |-> dispatched, met |-> met, failedAt |-> "",
                    err |-> "", result |-> "ok", requeueAfter |-> 0]]

\* updateStatusFailed: mem is the pass's copy of the record, o the stored one.
updateStatusFailed(o, mem, message, t, F, ch, bk, calls, io, dispatched, met) ==
    LET io1 == Append(io, "update:ops.status")
        failed == [mem EXCEPT !.status.phase = "Failed",
                              !.status.message = message,
                              !.status.completionTime = Some(t)]
    IN IF "updFailed" \in F
       THEN OpsOutcome(o, ch, bk, calls, io1, dispatched, met \cup {"updFailed"},
                       "updFailed", "error", 0)
       ELSE OpsOutcome(failed, ch, bk, calls, io1, dispatched, met, "", "ok", 0)

\* The pass from the dispatch on; o is the stored record, mem the pass's copy.
Dispatch(o, mem, ch, bk, t, F, io) ==
    LET ex == executeOperation(ch, bk, mem, t, F)
        io1 == io \o ex.res.io
        st == GetStatus(ex.res.child, mem, t, F)
        calls2 == Append(ex.calls, "GetStatus")
        io2 == io1 \o <<"get:child", "update:ops.status">>
        opMet == IF ex.res.err /\ ex.res.msg = "read failed" THEN {"opGet"}
                 ELSE IF ex.res.err /\ ex.res.msg = "write failed" THEN {"opWrite"}
                 ELSE {}
        pollMet == {"opStatusGet"} \cap F
    IN IF ex.res.err
       THEN updateStatusFailed(o, mem, ex.res.msg, t, F, ex.res.child,
                               ex.res.backups, ex.calls, io1, TRUE, opMet)
       ELSE IF "updStatus" \in F
       THEN OpsOutcome(o, ex.res.child, ex.res.backups, calls2, io2, TRUE,
                       pollMet \cup {"updStatus"}, "updStatus", "error", 0)
       ELSE OpsOutcome([mem EXCEPT !.status = st], ex.res.child, ex.res.backups,
                       calls2, io2, TRUE, pollMet, "",
                       IF st.phase = "Running" THEN "requeue" ELSE "ok",
                       IF st.phase = "Running" THEN 5 ELSE 0)

\* A faulty Reconcile that goes on to the dispatch when the write of Running
\* failed.
OpsReconcileIgnoringWrite(o, cl, ch, bk, t, F) ==
    LET io1 == <<"get:ops">>
        io2 == <<"get:ops", "get:cluster">>
        prov == GetProvider(cl.engineType)
        pending == o.status.phase \in {"", "Pending"}
        running == [o EXCEPT !.status.phase = "Running",
                             !.status.startTime = Some(t)]
        io3 == IF pending THEN Append(io2, "update:ops.status") ELSE io2
    IN IF "getOps" \in F
       THEN OpsOutcome(o, ch, bk, <<>>, io1, FALSE, {"getOps"}, "getOps", "error", 0)
       ELSE IF ~o.exists THEN OpsOutcome(o, ch, bk, <<>>, io1, FALSE, {}, "", "ok", 0)
       ELSE IF Finished(o.status.phase)
       THEN IF /\ o.ttl # Nil
               /\ o.status.completionTime # Nil
               /\ Expired(t, o.status.completionTime[1], o.ttl[1])
            THEN IF "delete" \in F
                 THEN OpsOutcome(o, ch, bk, <<>>, <<"get:ops", "delete:ops">>,
                                 FALSE, {"delete"}, "delete", "error", 0)
                 ELSE OpsOutcome([o EXCEPT !.exists = FALSE], ch, bk, <<>>,
                                 <<"get:ops", "delete:ops">>, FALSE, {}, "", "ok", 0)
            ELSE OpsOutcome(o, ch, bk, <<>>, io1, FALSE, {}, "", "ok", 0)
       ELSE IF "opsGetCluster" \in F \/ ~cl.exists
       THEN updateStatusFailed(o, o, "target cluster not found", t, F, ch, bk,
                               <<>>, io2, FALSE, {"opsGetCluster"} \cap F)
       ELSE IF ~prov.ok
       THEN updateStatusFailed(o, o, "unable to get provider: " \o prov.err, t, F, ch, bk,
                               <<>>, io2, FALSE, {})
       ELSE IF pending /\ "updRunning" \in F
       THEN [Dispatch(o, running, ch, bk, t, F, io3)
               EXCEPT !.pass.met = @ \cup {"updRunning"}]
       ELSE IF pending THEN Dispatch(running, running, ch, bk, t, F, io3)
       ELSE Dispatch(o, o, ch, bk, t, F, io3)

\* OpsRequestReconciler.Reconcile
OpsReconcile(o, cl, ch, bk, t, F) ==
    LET io1 == <<"get:ops">>
        io2 == <<"get:ops", "get:cluster">>
        prov == GetProvider(cl.engineType)
        pending == o.status.phase \in {"", "Pending"}
        running == [o EXCEPT !.status.phase = "Running",
                             !.status.startTime = Some(t)]
        io3 == IF pending THEN Append(io2, "update:ops.status") ELSE io2
    IN IF "getOps" \in F
       THEN OpsOutcome(o, ch, bk, <<>>, io1, FALSE, {"getOps"}, "getOps", "error", 0)
       ELSE IF ~o.exists THEN OpsOutcome(o, ch, bk, <<>>, io1, FALSE, {}, "", "ok", 0)
       ELSE IF Finished(o.status.phase)
       THEN IF /\ o.ttl # Nil
               /\ o.status.completionTime # Nil
               /\ Expired(t, o.status.completionTime[1], o.ttl[1])
            THEN IF "delete" \in F
                 THEN OpsOutcome(o, ch, bk, <<>>, <<"get:ops", "delete:ops">>,
                                 FALSE, {"delete"}, "delete", "error", 0)
                 ELSE OpsOutcome([o EXCEPT !.exists = FALSE], ch, bk, <<>>,
                                 <<"get:ops", "delete:ops">>, FALSE, {}, "", "ok", 0)
            ELSE OpsOutcome(o, ch, bk, <<>>, io1, FALSE, {}, "", "ok", 0)
       ELSE IF "opsGetCluster" \in F \/ ~cl.exists
       THEN updateStatusFailed(o, o, "target cluster not found", t, F, ch, bk,
                               <<>>, io2, FALSE, {"opsGetCluster"} \cap F)
       ELSE IF ~prov.ok
       THEN updateStatusFailed(o, o, "unable to get provider: " \o prov.err, t, F, ch, bk,
                               <<>>, io2, FALSE, {})
       ELSE IF pending /\ "updRunning" \in F
       THEN OpsOutcome(o, ch, bk, <<>>, io3, FALSE, {"updRunning"}, "updRunning",
                       "error", 0)
       ELSE IF pending THEN Dispatch(running, running, ch, bk, t, F, io3)
       ELSE Dispatch(o, o, ch, bk, t, F, io3)

----------------------------------------------------------------------------
(* The store at the start, and the steps of the system *)

ClusterFaults == {"getCluster", "hookGet", "cleanupGet", "cleanupDelete",
                  "finalizerUpdate", "applier", "childCreate", "childUpdate",
                  "statusGet", "statusUpdate"}

OpsFaults == {"getOps", "opsGetCluster", "updRunning", "opGet", "opWrite",
              "opStatusGet", "updStatus", "updFailed", "delete"}

\* A cluster pass stops at its first failing call; an operation pass can meet
\* a failing call, carry on, and meet a second one at its status write.
ClusterFaultSets == {{}} \cup {{f} : f \in ClusterFaults}
OpsFaultSets ==
    {{}} \cup {{f} : f \in OpsFaults}
         \cup {{f, "updFailed"} : f \in {"opsGetCluster", "opGet", "opWrite"}}
         \cup {{"opStatusGet", "updStatus"}}

DefaultConfig == [engineType |-> "postgresql", dataSource |-> "none", features |-> {}]

NewCluster(cfg) ==
    [exists |-> TRUE, engineType |-> cfg.engineType, version |-> EngineVersion,
     clusterSize |-> ClusterSize, storage |-> "10Gi", resources |-> "",
     config |-> {}, labels |-> {}, annotations |-> {},
     features |-> cfg.features, dataSource |-> cfg.dataSource,
     deleting |-> FALSE, finalizers |-> <<>>, generation |-> 1,
     status |-> NoStatus]

NoOpsStatus == [phase |-> "", startTime |-> Nil, completionTime |-> Nil,
                message |-> "", actionLog |-> <<>>]

NewOps(type, payload, backupName, ttl, phase) ==
    [exists |-> TRUE, type |-> type, payload |-> payload,
     backupName |-> backupName, ttl |-> ttl,
     status |-> [NoOpsStatus EXCEPT !.phase = phase]]

NoOps == [NewOps("", FALSE, "", Nil, "") EXCEPT !.exists = FALSE]

\* The store a user's new cluster is in: no child, no operation submitted.
Init ==
    /\ \E cfg \in ClusterConfigs, fin \in {<<>>, <<ForeignFinalizer>>} :
          cluster = [NewCluster(cfg) EXCEPT !.finalizers = fin]
    /\ child = NoChild
    /\ ops = NoOps
    /\ backups = {}
    /\ now = 0
    /\ queued = FALSE
    /\ last = NoPass
    /\ hist = [dispatches |-> 0, streak |-> 0, cleanups |-> 0, beat |-> FALSE,
               cleared |-> FALSE]

\* The stores an operation is submitted to: a cluster of the default
\* configuration that one pass has converged, a
\* cluster of an engine without provider, or no cluster of the referenced name.
OpsTargets ==
    LET out == ClusterReconcile(NewCluster(DefaultConfig), NoChild, {})
    IN {[cluster |-> out.cluster, child |-> out.child],
        [cluster |-> NewCluster([DefaultConfig EXCEPT !.engineType = "mongodb"]),
              child |-> NoChild],
             [cluster |-> [NewCluster(DefaultConfig) EXCEPT !.exists = FALSE],
              child |-> NoChild]}

OpsInitOf(types, ttls) ==
    /\ \E tg \in OpsTargets : cluster = tg.cluster /\ child = tg.child
    /\ \E type \in types, payload \in BOOLEAN, backupName \in {"", "nightly"},
          ttl \in ttls, phase \in {"", "Pending"} :
          /\ backupName # "" => type = "Backup" /\ payload
          /\ phase = "Pending" => type = "HorizontalScaling" /\ payload
          /\ ops = NewOps(type, payload, backupName, ttl, phase)
    /\ backups = {}
    /\ now = 0
    /\ queued = TRUE
    /\ last = NoPass
    /\ hist = [dispatches |-> 0, streak |-> 0, cleanups |-> 0, beat |-> FALSE,
               cleared |-> FALSE]

Min(a, b) == IF a < b THEN a ELSE b

Range(seq) == {seq[i] : i \in 1..Len(seq)}

\* The pass ran to its end: status written, requeue in 30 seconds.
Converged(pass) ==
    pass.ctrl = "cluster" /\ pass.failedAt = "" /\ pass.requeueAfter = 30

\* The status fields the mapper sets only for an enabled feature or a
\* reported condition.
OptionalStatus(st) ==
    {f \in {"backup", "monitoring", "proxy"} : st[f] # Nil}
        \cup (IF st.message # "" THEN {"message"} ELSE {})

\* The pass ran to its end and left empty an optional status field that the
\* status it found had set.
ClearedStale(pass, before, after) ==
    /\ Converged(pass)
    /\ OptionalStatus(before) \ OptionalStatus(after) # {}

\* The pass invoked the delegate's Cleanup and Cleanup returned success.
CleanupReturned(pass) ==
    /\ pass.ctrl = "cluster"
    /\ "Cleanup" \in Range(pass.calls)
    /\ pass.failedAt \notin {"cleanupGet", "cleanupDelete", "Cleanup"}

ClusterPass(F) ==
    /\ LET out == ClusterReconcile(cluster, child, F)
       IN /\ cluster' = out.cluster
          /\ child' = out.child
          /\ last' = out.pass
          /\ hist' = [hist EXCEPT
                        !.streak = IF out.pass.requeueAfter = 30
                                   THEN Min(@ + 1, MaxStreak) ELSE 0,
                        !.cleanups = IF CleanupReturned(out.pass)
                                     THEN Min(@ + 1, MaxCleanups) ELSE @,
                        !.cleared = @ \/ ClearedStale(out.pass, cluster.status,
                                                      out.cluster.status)]
    /\ UNCHANGED <<ops, backups, now, queued>>


\* The work queue after a pass: an error or a requested delay re-queues the
\* key, and so does the watch event of the pass's own write.
Requeued(pass, before, after) ==
    \/ pass.result \in {"error", "requeue"}
    \/ after.exists /\ after # before

OpsPass(F) ==
    /\ queued
    /\ LET out == OpsReconcile(ops, cluster, child, backups, now, F)
           n == Len(SelectSeq(out.pass.calls, LAMBDA c : c # "GetStatus"))
       IN /\ ops' = out.ops
          /\ child' = out.child
          /\ backups' = out.backups
          /\ last' = out.pass
          /\ queued' = Requeued(out.pass, ops, out.ops)
          /\ hist' = [hist EXCEPT !.dispatches = Min(@ + n, MaxDispatch),
                                   !.streak = 0]
    /\ UNCHANGED <<cluster, now>>

Tick ==
    /\ now < MaxTime
    /\ now' = now + 1
    /\ last' = NoPass
    /\ UNCHANGED <<cluster, child, ops, backups, queued, hist>>

\* Time goes on past the last instant the clock distinguishes.
TickBeyond ==
    /\ now = MaxTime
    /\ hist' = [hist EXCEPT !.beat = ~@]
    /\ last' = NoPass
    /\ UNCHANGED <<cluster, child, ops, backups, now, queued>>

\* The CNPG operator sets or clears the first condition of the child.
ChildCondition(m) ==
    /\ child.exists
    /\ child.condition # m
    /\ child' = [child EXCEPT !.condition = m]
    /\ last' = NoPass
    /\ hist' = [hist EXCEPT !.streak = 0]
    /\ UNCHANGED <<cluster, ops, backups, now, queued>>

\* The CNPG operator reports a new phase on the child.
ChildPhase(p) ==
    /\ child.exists
    /\ child.phase # p
    /\ child' = [child EXCEPT !.phase = p]
    /\ last' = NoPass
    /\ hist' = [hist EXCEPT !.streak = 0]
    /\ UNCHANGED <<cluster, ops, backups, now, queued>>

\* The user edits the cluster's desired state.
UserUpdateSpec(cfg) ==
    /\ cluster.exists
    /\ cluster.generation < MaxGeneration
    /\ cfg # [engineType |-> cluster.engineType, dataSource |-> cluster.dataSource,
              features |-> cluster.features]
    /\ cluster' = [cluster EXCEPT !.engineType = cfg.engineType,
                                  !.dataSource = cfg.dataSource,
                                  !.features = cfg.features,
                                  !.generation = @ + 1]
    /\ last' = NoPass
    /\ hist' = [hist EXCEPT !.streak = 0]
    /\ UNCHANGED <<child, ops, backups, now, queued>>

\* The user deletes the cluster: the store marks it, or removes it at once
\* when it carries no finalizer.
UserDeleteCluster ==
    /\ cluster.exists
    /\ ~cluster.deleting
    /\ cluster' = StoreUpdateCluster([cluster EXCEPT !.deleting = TRUE])
    /\ last' = NoPass
    /\ hist' = [hist EXCEPT !.streak = 0]
    /\ UNCHANGED <<child, ops, backups, now, queued>>

\* The user deletes the operation: it carries no finalizer, so the store
\* removes it at once, and the delete event queues a pass for its key.
UserDeleteOps ==
    /\ ops.exists
    /\ ops' = [ops EXCEPT !.exists = FALSE]
    /\ queued' = TRUE
    /\ last' = NoPass
    /\ UNCHANGED <<cluster, child, backups, now, hist>>

\* An event from outside the controller (informer resync, a touch of the
\* record) queues an operation pass.
Resync ==
    /\ ~queued
    /\ queued' = TRUE
    /\ last' = NoPass
    /\ UNCHANGED <<cluster, child, ops, backups, now, hist>>

\* The cluster loop: the controller's passes (its queue re-runs the key after
\* every error and every requested delay), the CNPG operator and the user.
Next ==
    \/ \E F \in ClusterFaultSets : ClusterPass(F)
    \/ \E p \in CNPGPhases : ChildPhase(p)
    \/ \E m \in ChildConditions : ChildCondition(m)
    \/ \E cfg \in ClusterConfigs : UserUpdateSpec(cfg)
    \/ UserDeleteCluster

Spec == Init /\ [][Next]_vars

\* The scheduler re-runs the cluster's key, store calls succeed in the end and
\* the CNPG operator brings a child it manages to the healthy phase.
FairSpec ==
    /\ Spec
    /\ WF_vars(ClusterPass({}))
    /\ WF_vars(ChildPhase(HealthyPhase))

\* The operation loop: the controller's passes, the CNPG operator, the clock.
OpsInit == OpsInitOf(OpsTypes \cup {UnknownOpsType}, TTLs)

OpsNext ==
    \/ \E F \in OpsFaultSets : OpsPass(F)
    \/ \E p \in CNPGPhases : ChildPhase(p)
    \/ Tick
    \/ Resync

OpsSpec == OpsInit /\ [][OpsNext]_vars

\* The operation loop on its own schedule: queued passes run, store calls
\* succeed in the end, time passes, and nothing else touches the record.
TTLInit == OpsInitOf({"HorizontalScaling", "Backup", "Custom"}, {Some(1)})

TTLNext ==
    \/ \E F \in OpsFaultSets : OpsPass(F)
    \/ \E p \in CNPGPhases : ChildPhase(p)
    \/ Tick
    \/ TickBeyond

TTLFairSpec ==
    /\ TTLInit
    /\ [][TTLNext]_vars
    /\ WF_vars(OpsPass({}))
    /\ WF_vars(Tick)
    /\ WF_vars(TickBeyond)

\* Both loops on one cluster: an operation that changes the child is submitted
\* for a cluster the cluster loop has converged, and from then on passes of
\* the two controllers interleave in any order while the cluster's desired
\* state stays as it is.
RaceTypes == {"HorizontalScaling", "Upgrade", "Reconfiguring"}

RaceInit ==
    /\ LET out == ClusterReconcile(NewCluster(DefaultConfig), NoChild, {})
       IN cluster = out.cluster /\ child = out.child
    /\ \E type \in RaceTypes : ops = NewOps(type, TRUE, "", Nil, "")
    /\ backups = {}
    /\ now = 0
    /\ queued = TRUE
    /\ last = NoPass
    /\ hist = [dispatches |-> 0, streak |-> 0, cleanups |-> 0, beat |-> FALSE,
               cleared |-> FALSE]

RaceNext ==
    \/ \E F \in OpsFaultSets : OpsPass(F)
    \/ \E F \in ClusterFaultSets : ClusterPass(F)
    \/ \E p \in CNPGPhases : ChildPhase(p)

RaceSpec == RaceInit /\ [][RaceNext]_vars

\* Both loops on one cluster, for the operations that leave a marker in the
\* child's annotations.
MarkerTypes == {"Stop", "Start", "Restart", "Switchover", "RebuildInstance"}

MarkerInit ==
    /\ LET out == ClusterReconcile(NewCluster(DefaultConfig), NoChild, {})
       IN cluster = out.cluster /\ child = out.child
    /\ \E type \in MarkerTypes : ops = NewOps(type, TRUE, "", Nil, "")
    /\ backups = {}
    /\ now = 0
    /\ queued = TRUE
    /\ last = NoPass
    /\ hist = [dispatches |-> 0, streak |-> 0, cleanups |-> 0, beat |-> FALSE,
               cleared |-> FALSE]

MarkerSpec == MarkerInit /\ [][RaceNext]_vars


\* The status mapper on every phase text: besides the phases the mapper's
\* table names, the CNPG operator reports texts the table does not name.
MapperPhases == CNPGPhases \cup {"Unrecoverable", "cluster in healthy state"}

MapperInit ==
    /\ LET out == ClusterReconcile(NewCluster(DefaultConfig), NoChild, {})
       IN cluster = out.cluster /\ child = out.child
    /\ ops = NoOps
    /\ backups = {}
    /\ now = 0
    /\ queued = FALSE
    /\ last = NoPass
    /\ hist = [dispatches |-> 0, streak |-> 0, cleanups |-> 0, beat |-> FALSE,
               cleared |-> FALSE]

MapperNext ==
    \/ \E F \in ClusterFaultSets : ClusterPass(F)
    \/ \E p \in MapperPhases : ChildPhase(p)
    \/ \E m \in ChildConditions : ChildCondition(m)

MapperSpec == MapperInit /\ [][MapperNext]_vars

\* The factory on every engine-type text: the four the record's schema
\* names, the empty one and one of another spelling.
EngineTypes == {"postgresql", "mongodb", "mysql", "kafka", "", "PostgreSQL"}

FactoryInit ==
    /\ \E e \in EngineTypes :
          cluster = NewCluster([DefaultConfig EXCEPT !.engineType = e])
    /\ child = NoChild
    /\ ops = NoOps
    /\ backups = {}
    /\ now = 0
    /\ queued = FALSE
    /\ last = NoPass
    /\ hist = [dispatches |-> 0, streak |-> 0, cleanups |-> 0, beat |-> FALSE,
               cleared |-> FALSE]

FactoryNext ==
    \/ \E F \in ClusterFaultSets : ClusterPass(F)
    \/ \E p \in CNPGPhases : ChildPhase(p)
    \/ UserDeleteCluster

FactorySpec == FactoryInit /\ [][FactoryNext]_vars

\* Both loops from a new cluster to its removal: the user submits a cluster
\* and an operation on it, and deletes the cluster or the operation while
\* passes for their keys are still to run.
GoneInit ==
    /\ cluster = NewCluster(DefaultConfig)
    /\ child = NoChild
    /\ \E type \in {"HorizontalScaling", "Backup"} :
          ops = NewOps(type, TRUE, "", Nil, "")
    /\ backups = {}
    /\ now = 0
    /\ queued = TRUE
    /\ last = NoPass
    /\ hist = [dispatches |-> 0, streak |-> 0, cleanups |-> 0, beat |-> FALSE,
               cleared |-> FALSE]

GoneNext ==
    \/ \E F \in OpsFaultSets : OpsPass(F)
    \/ \E F \in ClusterFaultSets : ClusterPass(F)
    \/ \E p \in CNPGPhases : ChildPhase(p)
    \/ UserDeleteCluster
    \/ UserDeleteOps

GoneSpec == GoneInit /\ [][GoneNext]_vars

\* The cluster loop with an applier any of whose steps can return an error.
PipelineFaultSets ==
    ClusterFaultSets \cup {{StepFaults[i]} : i \in 1..Len(StepFaults)}

PipelineNext ==
    \/ \E F \in PipelineFaultSets : ClusterPass(F)
    \/ \E p \in CNPGPhases : ChildPhase(p)
    \/ \E cfg \in ClusterConfigs : UserUpdateSpec(cfg)
    \/ UserDeleteCluster

PipelineSpec == Init /\ [][PipelineNext]_vars

----------------------------------------------------------------------------
(* Properties of the cluster loop, checked under Spec.                      *)

HasFinalizer(cl) == cl.exists /\ Finalizer \in Range(cl.finalizers)

\* C1 - Finalizer safety: a step that takes dbaas.io/finalizer off the cluster
\* record is a controller pass that invoked the delegate's Cleanup first, with
\* Cleanup returning success and the pass ending without error.
FinalizerSafety ==
    [][HasFinalizer(cluster) /\ ~HasFinalizer(cluster')
         => /\ CleanupReturned(last')
            /\ last'.failedAt = ""
            /\ last'.io[Len(last'.io)] = "update:cluster"]_vars

\* A pass has just removed the finalizer after a successful Cleanup, whether
\* the record went away with it or stays behind on a foreign finalizer.
FinalizerRemovedAfterCleanup ==
    /\ CleanupReturned(last)
    /\ last.failedAt = ""
    /\ "update:cluster" \in Range(last.io)
    /\ ~HasFinalizer(cluster)
    /\ hist.cleanups >= 1

\* C9 - Cleanup is idempotent: invoked on an absent child it returns success,
\* deletes nothing and leaves the store as it was; after any successful
\* Cleanup the child is absent and one more Cleanup succeeds without change.
CleanupIdempotent ==
    [][/\ (/\ last'.ctrl = "cluster"
            /\ "Cleanup" \in Range(last'.calls)
            /\ ~child.exists
            /\ last'.failedAt # "cleanupGet")
           => /\ CleanupReturned(last')
              /\ child' = child
              /\ "delete:child" \notin Range(last'.io)
       /\ CleanupReturned(last')
           => /\ ~child'.exists
              /\ ~Cleanup(child', {}).err
              /\ Cleanup(child', {}).child = child'
              /\ Cleanup(Cleanup(child, {}).child, {}).child = Cleanup(child, {}).child
              /\ ~Cleanup(Cleanup(child, {}).child, {}).err]_vars

\* A second successful Cleanup has just run, on a child the first one removed.
CleanupRepeated ==
    /\ CleanupReturned(last)
    /\ hist.cleanups = 2
    /\ "delete:child" \notin Range(last.io)
    /\ ~child.exists

\* C10 - Idempotence of convergence: a successful pass that follows a
\* successful pass, with no change to the cluster record or the child in
\* between, leaves the child, the status and the finalizers as they were.
ConvergenceIdempotent ==
    [][hist.streak >= 1 /\ hist'.streak >= 1
         => /\ child' = child
            /\ cluster'.status = cluster.status
            /\ cluster'.finalizers = cluster.finalizers]_vars

\* Two successful passes have run back to back on an existing child.
ConvergedTwice ==
    /\ hist.streak = 2
    /\ last.result = "requeue" /\ last.requeueAfter = 30
    /\ child.exists
    /\ Finalizer \in Range(cluster.finalizers)

\* C11 - Status wholeness: after every cluster pass that ran to its end the
\* stored status is exactly what the status mapper returns for the stored
\* cluster and child; the sub-status of a disabled feature is empty and the
\* message is the child's, whatever the status was before the pass.
StatusWhole ==
    [][Converged(last')
         => /\ cluster'.status = Status(cluster', child', {}).status
            /\ (cluster'.status.backup # Nil) = ("backup" \in cluster'.features)
            /\ (cluster'.status.monitoring # Nil) = ("monitoring" \in cluster'.features)
            /\ (cluster'.status.proxy # Nil) = ("proxy" \in cluster'.features)
            /\ cluster'.status.message = child'.condition
            /\ cluster'.status.observedGeneration = cluster'.generation]_vars

\* A pass has just emptied the sub-statuses an earlier pass had set, the
\* features having been disabled in between.
StaleStatusCleared ==
    /\ Converged(last)
    /\ hist.cleared
    /\ cluster.features = {}
    /\ OptionalStatus(cluster.status) = {}

\* C12 - Child ownership: whenever the child record exists it is the one
\* owned by and named after the cluster record, and that cluster record
\* exists and carries dbaas.io/finalizer.
ChildOwned ==
    child.exists
        => /\ HasFinalizer(cluster)
           /\ child.owner = ClusterName
           /\ <<"dbaas.io/cluster", ClusterName>> \in child.labels

\* The child is still there while its cluster, marked for deletion, waits on
\* the finalizer.
ChildHeldByFinalizer ==
    /\ child.exists
    /\ cluster.deleting
    /\ HasFinalizer(cluster)
    /\ last.ctrl = "cluster"

\* C27 - Delegate-resolution failure leaves everything untouched: a cluster
\* pass that reads a record whose engine type has no provider returns an
\* error and makes no other store call and no provider call; the record (its
\* status and finalizers included) and the child are as before, whether or
\* not the record is marked for deletion.
ResolutionFailureUntouched ==
    [][(/\ last'.ctrl = "cluster" /\ cluster.exists
        /\ cluster.engineType # "postgresql"
        /\ last'.failedAt # "getCluster")
         => /\ last'.result = "error" /\ last'.failedAt = "GetProvider"
            /\ last'.calls = <<>>
            /\ last'.io = <<"get:cluster">>
            /\ UNCHANGED <<cluster, child>>]_vars

\* A pass has just failed to resolve the provider of a record that is marked
\* for deletion and still holds the finalizer and a child.
DeletingUnresolved ==
    /\ last.ctrl = "cluster" /\ last.failedAt = "GetProvider"
    /\ cluster.exists /\ cluster.deleting
    /\ cluster.engineType = "mongodb"
    /\ HasFinalizer(cluster)
    /\ child.exists

\* C28 - Pre-check delay short-circuits the pass: a cluster pass on a record
\* that declares a restore from backup, with a child that does not report
\* healthy, calls the hook and nothing else, makes no store call but the two
\* reads, leaves the record and the child as they are and requeues after the
\* hook's 5 seconds; and a pass requeues after that delay in no other case.
PreCheckShortCircuits ==
    [][last'.ctrl = "cluster"
         => /\ (/\ cluster.exists /\ cluster.engineType = "postgresql"
                /\ cluster.dataSource = "backup"
                /\ child.exists /\ child.phase # HealthyPhase
                /\ last'.failedAt \notin {"getCluster", "hookGet"})
                 => /\ last'.result = "requeue" /\ last'.requeueAfter = 5
                    /\ last'.calls = <<"PreReconcileHook">>
                    /\ last'.io = <<"get:cluster", "get:child">>
                    /\ UNCHANGED <<cluster, child>>
            /\ last'.requeueAfter \notin {0, 30}
                 => /\ cluster.exists /\ cluster.dataSource = "backup"
                    /\ child.exists /\ child.phase # HealthyPhase
                    /\ last'.requeueAfter = 5]_vars

\* The hook has just delayed a pass on a record whose newest desired state no
\* pass has yet observed.
PassDelayedByHook ==
    /\ last.ctrl = "cluster" /\ last.result = "requeue" /\ last.requeueAfter = 5
    /\ cluster.exists /\ cluster.dataSource = "backup"
    /\ child.exists /\ child.phase # HealthyPhase
    /\ cluster.status.observedGeneration < cluster.generation

\* The part of the child the controller declares: all but what the CNPG
\* operator reports on it.
DesiredChild(ch) == [ch EXCEPT !.phase = "", !.condition = ""]

\* C30 - Create-or-update: a cluster pass that reaches the child first
\* attempts the create; the update is attempted only right after a create
\* that found the child existing; an error of the create or of the update
\* ends the pass with an error, the child and the status as before and no
\* status write; after a create-or-update without error the stored child's
\* desired state is the record the pipeline builds from the cluster record.
CreateOrUpdate ==
    [][last'.ctrl = "cluster"
         => LET io == last'.io
                created == \E i \in 1..Len(io) : io[i] = "create:child"
                updated == \E i \in 1..Len(io) : io[i] = "update:child"
            IN /\ updated
                    => /\ child.exists
                       /\ \A i \in 1..Len(io) :
                            io[i] = "update:child" => i > 1 /\ io[i - 1] = "create:child"
               /\ (created /\ ~child.exists) => ~updated
               /\ (created /\ child.exists /\ last'.failedAt # "childCreate") => updated
               /\ last'.failedAt \in {"childCreate", "childUpdate"}
                    => /\ created
                       /\ last'.result = "error"
                       /\ child' = child
                       /\ cluster'.status = cluster.status
                       /\ "Status" \notin Range(last'.calls)
                       /\ "update:cluster.status" \notin Range(io)
               /\ (created /\ last'.failedAt \notin {"childCreate", "childUpdate"})
                    => /\ child'.exists
                       /\ DesiredChild(child') =
                            DesiredChild(applyTransformations(cluster, {}).built)
                       /\ child'.phase = child.phase]_vars

\* A pass has just updated an existing child to a changed cluster record.
ChildUpdatedToNewSpec ==
    /\ Converged(last)
    /\ "update:child" \in Range(last.io)
    /\ cluster.generation = 2 /\ "monitoring" \in cluster.features
    /\ child.exists /\ child.podMonitor
    /\ child.phase = HealthyPhase

\* C37 - Observed generation: the status stored by a cluster pass that ran to
\* its status write carries the generation the record had when the pass read
\* it, and the observed generation in the stored status never decreases.
ObservedGenerationMonotonic ==
    [][/\ (/\ last'.ctrl = "cluster" /\ last'.failedAt = ""
           /\ "update:cluster.status" \in Range(last'.io))
            => /\ cluster'.status.observedGeneration = cluster.generation
               /\ cluster'.generation = cluster.generation
       /\ (cluster.exists /\ cluster'.exists)
            => cluster'.status.observedGeneration
                  >= cluster.status.observedGeneration]_vars

\* A pass has stored the status of a record the user edited after creating
\* it: the observed generation is the record's latest generation.
SecondGenerationObserved ==
    /\ last.ctrl = "cluster" /\ last.failedAt = ""
    /\ "update:cluster.status" \in Range(last.io)
    /\ cluster.generation = MaxGeneration
    /\ cluster.status.observedGeneration = MaxGeneration


----------------------------------------------------------------------------
(* Properties of the operation loop, checked under OpsSpec.                 *)

PhaseRank(phase) ==
    CASE phase \in {"", "Pending"} -> 0
      [] phase = "Running" -> 1
      [] phase \in {"Succeeded", "Failed"} -> 2

\* C2 - Phase monotonicity: the stored phase only moves forward along
\* Pending, Running, {Succeeded|Failed}; a record stored as Succeeded or
\* Failed keeps its status, no pass issues a status write for it, and a
\* deleted record does not come back.
PhaseMonotonic ==
    [][/\ ops'.exists => ops.exists
       /\ ops.exists /\ ops'.exists
           => /\ PhaseRank(ops.status.phase) <= PhaseRank(ops'.status.phase)
              /\ PhaseRank(ops'.status.phase) = 0
                   => ops'.status.phase = ops.status.phase
              /\ ops.status.phase \in {"Succeeded", "Failed"}
                   => /\ ops'.status = ops.status
                      /\ last'.ctrl = "ops"
                           => "update:ops.status" \notin Range(last'.io)]_vars

\* A pass has just run on a record stored as Succeeded and only read it.
TerminalRecordSkipped ==
    /\ ops.exists
    /\ ops.status.phase = "Succeeded"
    /\ last.ctrl = "ops"
    /\ last.io = <<"get:ops">>
    /\ last.failedAt = ""

\* C3 - Operations are not retried: over the lifetime of one operation record
\* the delegate's operation method is invoked at most once.
DispatchedAtMostOnce == hist.dispatches <= 1

\* The delegate method each declared type stands for.
DeclaredMethod ==
    [type \in OpsTypes |-> IF type = "Reconfiguring" THEN "Reconfigure" ELSE type]

OperationCalls(pass) == SelectSeq(pass.calls, LAMBDA c : c # "GetStatus")

\* C4 - Exactly-one dispatch: a pass that reaches the dispatch invokes, for
\* each of the fourteen types, the one method of that type and no other
\* operation method; for any other type it invokes none and the record is
\* stored as Failed (when the store takes the write).
ExactlyOneDispatch ==
    last.ctrl = "ops" /\ last.dispatched
        => IF ops.type \in OpsTypes
           THEN OperationCalls(last) = <<DeclaredMethod[ops.type]>>
           ELSE /\ OperationCalls(last) = <<>>
                /\ last.calls = <<>>
                /\ last.failedAt = "" => ops.status.phase = "Failed"

\* A Reconfiguring operation has just been dispatched to Reconfigure, and it
\* went through to the status poll.
ReconfiguringDispatched ==
    /\ last.ctrl = "ops" /\ last.dispatched
    /\ ops.type = "Reconfiguring"
    /\ last.calls = <<"Reconfigure", "GetStatus">>
    /\ last.failedAt = ""

PayloadTypes == {"Switchover", "HorizontalScaling", "VerticalScaling",
                 "VolumeExpansion", "Reconfiguring", "Upgrade", "Restore",
                 "RebuildInstance", "Custom"}

\* C5 - Fail fast on a missing payload: dispatching a payload-carrying type
\* without its payload makes no store call on the child, leaves the child and
\* the backups unchanged, skips the status poll, and the record is stored as
\* Failed with a message and the completion time (when the store takes the
\* write).
MissingPayloadFailsFast ==
    [][(/\ last'.ctrl = "ops" /\ last'.dispatched
        /\ ops.type \in PayloadTypes
        /\ ~ops.payload)
         => /\ child' = child
            /\ backups' = backups
            /\ Range(last'.io) \cap {"get:child", "update:child", "create:backup"} = {}
            /\ last'.calls = <<DeclaredMethod[ops.type]>>
            /\ last'.failedAt \in {"", "updFailed"}
            /\ last'.failedAt = ""
                 => /\ ops'.status.phase = "Failed"
                    /\ ops'.status.message # ""
                    /\ ops'.status.completionTime = Some(now)]_vars

\* A payload-less operation on an existing child has just been failed.
MissingPayloadFailed ==
    /\ last.ctrl = "ops" /\ last.dispatched
    /\ ops.type \in PayloadTypes /\ ~ops.payload
    /\ child.exists
    /\ ops.status.phase = "Failed"
    /\ ops.status.completionTime # Nil
    /\ last.failedAt = ""

\* C6 - TTL boundary: the controller deletes an operation record only when it
\* is stored as Succeeded or Failed, carries a TTL and a completion time, and
\* the clock has reached completion time plus TTL.
TTLBoundary ==
    [][ops.exists /\ ~ops'.exists
         => /\ ops.status.phase \in {"Succeeded", "Failed"}
            /\ ops.ttl # Nil
            /\ ops.status.completionTime # Nil
            /\ now >= ops.status.completionTime[1] + ops.ttl[1]
            /\ last'.ctrl = "ops"
            /\ "delete:ops" \in Range(last'.io)]_vars

\* A pass has just deleted the record, its TTL having run out.
DeletedAfterTTL ==
    /\ ~ops.exists
    /\ ops.ttl # Nil
    /\ last.ctrl = "ops"
    /\ "delete:ops" \in Range(last.io)
    /\ last.failedAt = ""

\* The store failures that say nothing about the request itself: the read of
\* the target cluster, the child read or write inside the operation method,
\* the child read of the status poll.
TransientFaults == {"opsGetCluster", "opGet", "opWrite", "opStatusGet"}

\* C13 - Transient conditions never reach the status: a pass that meets a
\* failing cluster read, child read or write, or status-poll read does not
\* store Failed nor change the message; it ends in an error or a requeue.
TransientNotInStatus ==
    [][last'.ctrl = "ops" /\ last'.met \cap TransientFaults # {}
         => /\ ops'.status.phase # "Failed"
            /\ ops'.status.message = ops.status.message
            /\ last'.result \in {"error", "requeue"}]_vars

\* C14 - Status-fetch failure is transient: a pass whose status poll cannot
\* read the child leaves the stored phase Running and ends with a requeue
\* after 5 seconds.
PollFailureRequeues ==
    [][last'.ctrl = "ops" /\ "opStatusGet" \in last'.met
         => /\ ops'.status.phase = "Running"
            /\ last'.result = "requeue"
            /\ last'.requeueAfter = 5]_vars

\* C15 - Unresolvable target is a terminal failure: a pass on a non-terminal
\* operation whose cluster does not exist, or is of an engine type without
\* provider, invokes no delegate method, leaves child and backups alone, and
\* (when the store takes the write) stores Failed with a message and the
\* completion time and asks for no requeue.
UnresolvableTargetFails ==
    [][(/\ last'.ctrl = "ops" /\ "getOps" \notin last'.met
        /\ ops.exists
        /\ ops.status.phase \notin {"Succeeded", "Failed"}
        /\ (~cluster.exists \/ cluster.engineType # "postgresql"))
         => /\ last'.calls = <<>>
            /\ ~last'.dispatched
            /\ child' = child
            /\ backups' = backups
            /\ last'.io = <<"get:ops", "get:cluster", "update:ops.status">>
            /\ last'.failedAt \in {"", "updFailed"}
            /\ last'.failedAt = ""
                 => /\ ops'.status.phase = "Failed"
                    /\ ops'.status.message # ""
                    /\ ops'.status.completionTime = Some(now)
                    /\ last'.result = "ok"
                    /\ last'.requeueAfter = 0]_vars

\* An operation on a cluster that does not exist has just been failed.
MissingClusterFailed ==
    /\ last.ctrl = "ops" /\ last.met = {} /\ last.failedAt = ""
    /\ ~cluster.exists
    /\ ops.exists
    /\ ops.status.phase = "Failed"
    /\ ops.status.completionTime # Nil
    /\ last.calls = <<>>

\* What the method dispatched by the pass just taken returned: the failed
\* store calls it met are those the pass recorded.
Dispatched == executeOperation(child, backups, ops, now, last'.met).res

\* C16 - Dispatch error handling: when the dispatched method returns an error
\* the pass skips the status poll and writes the status once more; when the
\* store takes that write the record is Failed with the error text and the
\* completion time and the pass asks for no requeue.  A record stored as
\* Failed is never dispatched again.
DispatchErrorFails ==
    [][/\ (last'.ctrl = "ops" /\ last'.dispatched /\ Dispatched.err)
           => /\ "GetStatus" \notin Range(last'.calls)
              /\ last'.io[Len(last'.io)] = "update:ops.status"
              /\ last'.failedAt \in {"", "updFailed"}
              /\ last'.failedAt = ""
                   => /\ ops'.status.phase = "Failed"
                      /\ ops'.status.message = Dispatched.msg
                      /\ ops'.status.message # ""
                      /\ ops'.status.completionTime = Some(now)
                      /\ last'.result = "ok"
                      /\ last'.requeueAfter = 0
       /\ ops.status.phase = "Failed" => ~last'.dispatched]_vars

\* The Custom operation, payload given, has just been failed as not
\* implemented.
CustomFailed ==
    /\ last.ctrl = "ops" /\ last.dispatched /\ last.failedAt = ""
    /\ last.calls = <<"Custom">>
    /\ ops.type = "Custom" /\ ops.payload
    /\ ops.status.phase = "Failed"
    /\ ops.status.message = "custom operation not implemented"
    /\ ops.status.completionTime # Nil

\* C18 - Horizontal-scale scenario: a pass that dispatches a HorizontalScaling
\* operation, all store calls succeeding, sets the child's replica count to
\* the target and nothing else; it stores Running with a requeue after 5
\* seconds while the child does not report healthy, and Succeeded with the
\* completion time when it does.  At the step that stores the operation as
\* Succeeded the child is healthy and its replica count is the target.
HorizontalScalingScenario ==
    [][/\ (/\ last'.ctrl = "ops" /\ last'.dispatched /\ last'.met = {}
           /\ ops.type = "HorizontalScaling" /\ ops.payload
           /\ child.exists)
           => /\ child' = [child EXCEPT !.instances = ScaleReplicas]
              /\ ops'.status.phase =
                    (IF child.phase = HealthyPhase THEN "Succeeded" ELSE "Running")
              /\ ops'.status.completionTime =
                    (IF child.phase = HealthyPhase THEN Some(now) ELSE Nil)
              /\ last'.requeueAfter = (IF child.phase = HealthyPhase THEN 0 ELSE 5)
       /\ (/\ ops'.exists /\ ops'.type = "HorizontalScaling"
           /\ ops.status.phase # "Succeeded"
           /\ ops'.status.phase = "Succeeded")
           => /\ child'.instances = ScaleReplicas
              /\ child'.phase = HealthyPhase
              /\ ops'.status.completionTime = Some(now)]_vars

\* A scale-out that a first pass left Running has just been stored as
\* Succeeded, the child healthy with the target replica count.
ScaledOut ==
    /\ last.ctrl = "ops" /\ last.dispatched /\ last.met = {}
    /\ ops.exists /\ ops.type = "HorizontalScaling"
    /\ ops.status.phase = "Succeeded"
    /\ ops.status.completionTime # Nil
    /\ hist.dispatches = 2
    /\ child.instances = ScaleReplicas
    /\ child.instances # cluster.clusterSize

\* C19 - Backup scenario: the first dispatch of a Backup operation, with or
\* without payload, all store calls succeeding, creates exactly one Backup
\* object that refers to the cluster by name and is named by the payload's
\* backup name when that is given and by the operation's own name otherwise;
\* the child is left as it is and the method makes no call on it.
BackupScenario ==
    [][(/\ last'.ctrl = "ops" /\ last'.dispatched /\ last'.met = {}
        /\ ops.type = "Backup"
        /\ hist.dispatches = 0)
         => /\ backups' = backups \cup
                  {[name |-> IF ops.payload /\ ops.backupName # ""
                             THEN ops.backupName ELSE OpsName,
                    cluster |-> ClusterName]}
            /\ Cardinality(backups') = Cardinality(backups) + 1
            /\ child' = child
            /\ last'.calls = <<"Backup", "GetStatus">>
            /\ Dispatched.io = <<"create:backup">>
            /\ "update:child" \notin Range(last'.io)]_vars

\* A Backup operation without payload has just created the Backup object
\* named after itself.
BackupCreated ==
    /\ last.ctrl = "ops" /\ last.dispatched /\ last.met = {}
    /\ ops.type = "Backup" /\ ~ops.payload
    /\ backups = {[name |-> OpsName, cluster |-> ClusterName]}
    /\ hist.dispatches = 1
    /\ last.calls = <<"Backup", "GetStatus">>

\* One sequence starts with the other.
IsPrefix(s, t) == Len(s) <= Len(t) /\ SubSeq(t, 1, Len(s)) = s

\* C21 - The operation's action log is append-only: across every status
\* write on an operation that stays in the store, the log before the write is
\* a prefix of the log after it.
ActionLogAppendOnly ==
    [][(ops.exists /\ ops'.exists)
         => IsPrefix(ops.status.actionLog, ops'.status.actionLog)]_vars

\* C26 - Running is observable before any work: a pass that invokes an
\* operation method found the stored phase empty, Pending or Running, and for
\* an empty or Pending phase its write of Running with the start time is the
\* store call right after its two reads and before any call of the method,
\* so the record stays Running when a later write of the pass fails; when the
\* write of Running fails, the pass returns the error, invokes no method and
\* changes nothing.
RunningBeforeWork ==
    [][/\ (last'.ctrl = "ops" /\ OperationCalls(last') # <<>>)
            => /\ ops.status.phase \in {"", "Pending", "Running"}
               /\ "updRunning" \notin last'.met
               /\ ops.status.phase \in {"", "Pending"}
                    => /\ Len(last'.io) >= 3
                       /\ SubSeq(last'.io, 1, 3) =
                            <<"get:ops", "get:cluster", "update:ops.status">>
                       /\ last'.failedAt \in {"updStatus", "updFailed"}
                            => /\ ops'.status.phase = "Running"
                               /\ ops'.status.startTime = Some(now)
       /\ (/\ last'.ctrl = "ops" /\ "updRunning" \in last'.met)
            => /\ ops.status.phase \in {"", "Pending"}
               /\ last'.result = "error"
               /\ last'.calls = <<>> /\ ~last'.dispatched
               /\ UNCHANGED <<ops, child, backups>>]_vars

\* The write of Running went through, the method was invoked, and the pass's
\* last write failed: the record is stored as Running with its start time.
RunningStoredBeforeMethod ==
    /\ last.ctrl = "ops" /\ OperationCalls(last) # <<>>
    /\ last.failedAt = "updStatus"
    /\ hist.dispatches = 1
    /\ ops.status.phase = "Running" /\ ops.status.startTime = Some(now)
    /\ ops.status.actionLog = <<>>


\* The pass wrote the operation's status from the delegate's report.
WroteReport(pass) ==
    /\ pass.ctrl = "ops"
    /\ "GetStatus" \in Range(pass.calls)
    /\ pass.failedAt = ""

\* C32 - Every terminal operation carries a completion time: an operation in
\* the store whose phase is Succeeded or Failed has a completion time,
\* whichever path made it terminal.
TerminalHasCompletionTime ==
    ops.exists /\ Finished(ops.status.phase) => ops.status.completionTime # Nil


\* C33 - The start time is kept: once the operation's status has been stored
\* with phase Running and a start time, every status stored later still has
\* that start time; so a pass leaves a start time it found in the store as
\* it is, and a pass that stores the delegate's report, which it does only
\* after Running was stored with a start time, leaves a start time.
StartTimeKept ==
    [][/\ (ops.exists /\ ops'.exists /\ ops.status.startTime # Nil)
             => ops'.status.startTime = ops.status.startTime
       /\ (WroteReport(last') /\ ops'.exists)
             => ops'.status.startTime # Nil]_vars


\* C36 - The status poll of the reference delegate: in every pass that stores
\* the delegate's report, the phase stored is Succeeded, with the time of the
\* pass as completion time, exactly when the child was read and its phase is
\* 'Cluster in healthy state', and Running without completion time when the
\* child was read with any other phase; this holds for every operation type,
\* in the very pass that changed the child, and whatever the status before.
StatusPoll ==
    [][WroteReport(last') =>
         LET readable == child'.exists /\ "opStatusGet" \notin last'.met
             st == ops'.status
         IN /\ st.phase = "Succeeded" <=> readable /\ child'.phase = HealthyPhase
            /\ st.phase = "Succeeded" => st.completionTime = Some(now)
            /\ readable /\ child'.phase # HealthyPhase
                 => st.phase = "Running" /\ st.completionTime = Nil]_vars

\* An upgrade was stored as Succeeded by the pass that dispatched it first:
\* the child already carries the target image and still reports the healthy
\* phase it reported before the change.
SucceededBeforeChildActed ==
    /\ WroteReport(last)
    /\ hist.dispatches = 1
    /\ ops.exists /\ ops.type = "Upgrade"
    /\ ops.status.phase = "Succeeded"
    /\ child.exists /\ child.phase = HealthyPhase
    /\ child.image[2] = TargetVersion


----------------------------------------------------------------------------
(* Properties of the two loops together, checked under RaceSpec.            *)

\* The child carries the change an operation of the given type makes.
Applied(type, ch) ==
    /\ ch.exists
    /\ CASE type = "HorizontalScaling" -> ch.instances = ScaleReplicas
         [] type = "Upgrade" -> ch.image[2] = TargetVersion
         [] type = "Reconfiguring" -> <<"max_connections", "200">> \in ch.parameters
         [] OTHER -> FALSE

\* C20 - The operation loop tolerates racing the cluster loop: with the
\* cluster's desired state unchanged, the change a dispatched operation made
\* to the child (replica count, image, parameters) is still in the child
\* after every later cluster pass that completes.
MutationSurvivesClusterPass ==
    [][(/\ Applied(ops.type, child)
        /\ last'.ctrl = "cluster" /\ Converged(last'))
         => Applied(ops.type, child')]_vars



\* The annotation keys an operation of the type writes on the child.
MarkerKeys(type) ==
    CASE type = "Stop" -> {"cnpg.io/hibernation"}
      [] type = "Restart" -> {"cnpg.io/restartedAt"}
      [] type = "Switchover" -> {"cnpg.io/forceSwitchover", "cnpg.io/switchoverTarget"}
      [] type = "RebuildInstance" -> {"cnpg.io/rebuildInstance"}
      [] OTHER -> {}

\* The markers of the submitted operation that are on the child.
MarkersOn(ch) ==
    IF ch.exists THEN {e \in ch.annotations : e[1] \in MarkerKeys(ops.type)} ELSE {}

\* C34 - Side-channel markers survive convergence: a marker an operation
\* wrote in the child's annotations is still there, with its value, after
\* every cluster pass; a cluster pass never removes it.
MarkersSurviveConvergence ==
    [][last'.ctrl = "cluster" => MarkersOn(child) \subseteq MarkersOn(child')]_vars


----------------------------------------------------------------------------
(* Properties of the status mapper, checked under MapperSpec.               *)

\* C22 - Conservative phase mapping: the status a cluster pass writes has
\* phase Ready exactly for the child phase 'Cluster in healthy state',
\* Updating exactly for 'Upgrading cluster' and Initializing for every other
\* child phase, the empty one included; it is never Failed, and the ready
\* flag is true exactly when the phase is Ready.
ConservativePhaseMapping ==
    [][(last'.ctrl = "cluster" /\ Converged(last'))
         => /\ cluster'.status.phase = "Ready" <=> child'.phase = HealthyPhase
            /\ cluster'.status.phase = "Updating" <=> child'.phase = "Upgrading cluster"
            /\ cluster'.status.phase = "Initializing"
                 <=> child'.phase \notin {HealthyPhase, "Upgrading cluster"}
            /\ cluster'.status.phase # "Failed"
            /\ cluster'.status.ready <=> cluster'.status.phase = "Ready"]_vars

\* A pass has just mapped a phase text the table does not name.
UnknownPhaseMapped ==
    /\ Converged(last)
    /\ child.phase = "Unrecoverable"
    /\ cluster.status.phase = "Initializing"
    /\ ~cluster.status.ready


----------------------------------------------------------------------------
(* Properties of the provider factory, checked under FactorySpec.           *)

\* C23 - Delegate factory: a cluster pass that has read the record gets a
\* provider exactly when the engine type is 'postgresql'; for every other
\* engine-type text, the empty one included, it gets an error with a message
\* and no provider, so no provider method is called; a second resolution of
\* the same engine type ends the same way with the same message.
FactoryResolution ==
    [][(/\ last'.ctrl = "cluster" /\ cluster.exists
        /\ last'.failedAt # "getCluster")
         => /\ last'.failedAt = "GetProvider" <=> cluster.engineType # "postgresql"
            /\ last'.failedAt = "GetProvider"
                 => /\ last'.calls = <<>>
                    /\ last'.result = "error"
                    /\ last'.err # ""
                    /\ last.failedAt = "GetProvider" => last'.err = last.err
            /\ last'.failedAt # "GetProvider"
                 => "PreReconcileHook" \in Range(last'.calls)]_vars

\* A pass has just failed to resolve the empty engine type.
EmptyEngineRefused ==
    /\ last.ctrl = "cluster" /\ last.failedAt = "GetProvider"
    /\ cluster.exists /\ cluster.engineType = ""
    /\ last.err # "" /\ last.calls = <<>>
    /\ ~child.exists


----------------------------------------------------------------------------
(* Properties of passes for records that are gone, checked under GoneSpec.  *)

\* C24 - Not-found is a silent success in both controllers: a cluster pass or
\* an operation pass whose read finds no record returns success without
\* requeue, calls no delegate method and makes no call on the store but that
\* read, so no record changes.
NotFoundSilent ==
    [][/\ (/\ last'.ctrl = "cluster" /\ ~cluster.exists
           /\ last'.failedAt # "getCluster")
            => /\ last'.result = "ok" /\ last'.requeueAfter = 0
               /\ last'.calls = <<>>
               /\ last'.io = <<"get:cluster">>
               /\ UNCHANGED <<cluster, child, ops, backups>>
       /\ (/\ last'.ctrl = "ops" /\ ~ops.exists
           /\ "getOps" \notin last'.met)
            => /\ last'.result = "ok" /\ last'.requeueAfter = 0
               /\ last'.calls = <<>> /\ ~last'.dispatched
               /\ last'.io = <<"get:ops">>
               /\ ~queued'
               /\ UNCHANGED <<cluster, child, ops, backups>>]_vars

\* Both records are gone and the last pass, an operation pass, found none.
BothGoneSilently ==
    /\ ~cluster.exists /\ ~ops.exists
    /\ last.ctrl = "ops" /\ last.result = "ok" /\ last.io = <<"get:ops">>
    /\ ~queued


\* What the user declares on the cluster record.
DesiredState(cl) ==
    [engineType |-> cl.engineType, version |-> cl.version,
     clusterSize |-> cl.clusterSize, storage |-> cl.storage,
     resources |-> cl.resources, config |-> cl.config,
     features |-> cl.features, dataSource |-> cl.dataSource,
     labels |-> cl.labels, annotations |-> cl.annotations,
     generation |-> cl.generation, deleting |-> cl.deleting]

\* C25 - Writer discipline on the cluster record: no pass of either
\* controller changes what the user declared; a cluster pass changes at most
\* the status and the finalizer list (and with the last finalizer of a
\* deleted record the store removes it); an operation pass, its delegate
\* method included, leaves the cluster record as it is.
WriterDiscipline ==
    [][/\ last'.ctrl \in {"cluster", "ops"}
            => DesiredState(cluster') = DesiredState(cluster)
       /\ last'.ctrl = "cluster"
            => [cluster' EXCEPT !.status = cluster.status,
                                !.finalizers = cluster.finalizers,
                                !.exists = cluster.exists] = cluster
       /\ last'.ctrl = "ops" => cluster' = cluster]_vars

\* A HorizontalScaling operation has succeeded and the cluster record still
\* declares its own replica count.
ScaledButDeclaredSizeKept ==
    /\ last.ctrl = "ops" /\ last.dispatched
    /\ ops.exists /\ ops.type = "HorizontalScaling"
    /\ ops.status.phase = "Succeeded"
    /\ child.instances = ScaleReplicas
    /\ cluster.exists /\ cluster.clusterSize = ClusterSize
    /\ HasFinalizer(cluster)


\* The cluster pass stored the status of a record that is not being deleted.
StoredStatus(pass, before) ==
    /\ pass.ctrl = "cluster"
    /\ before.exists /\ ~before.deleting
    /\ pass.failedAt = ""
    /\ "update:cluster.status" \in Range(pass.io)

\* C31: a cluster pass that runs to the end of its status write for a record
\* not being deleted asks for the next pass in 30 seconds, whether or not it
\* changed anything, and no other cluster pass asks for 30 seconds; an
\* operation pass asks for the next pass in 5 seconds exactly when the phase
\* it wrote from the delegate's report is Running, and asks for none when the
\* phase it leaves is terminal or the record it read was already terminal.
Scheduling ==
    [][/\ last'.ctrl = "cluster" =>
            /\ StoredStatus(last', cluster) <=> last'.requeueAfter = 30
            /\ StoredStatus(last', cluster) => last'.result = "requeue"
       /\ last'.ctrl = "ops" =>
            /\ last'.requeueAfter \in {0, 5}
            /\ last'.requeueAfter = 5 <=>
                  WroteReport(last') /\ ops'.status.phase = "Running"
            /\ last'.requeueAfter = 5 => last'.result = "requeue"
            /\ Finished(ops'.status.phase) \/ Finished(ops.status.phase) =>
                  last'.requeueAfter = 0 /\ last'.result # "requeue"]_vars

\* A cluster pass that changed nothing has asked for the next one in 30
\* seconds while the operation, polled as Running, waits for its 5 seconds.
HeartbeatWhilePolling ==
    /\ last.ctrl = "cluster"
    /\ last.requeueAfter = 30
    /\ hist.streak = MaxStreak
    /\ ops.exists /\ ops.status.phase = "Running"
    /\ ops.status.actionLog # <<>>


----------------------------------------------------------------------------
(* Properties of the applier pipeline, checked under PipelineSpec.          *)

\* The applier steps a pass invoked, in the order of their invocation.
StepCalls(pass) == SelectSeq(pass.calls, LAMBDA c : c \in Range(ApplierSteps))

\* The step whose error the pass reports.
FailedStep(pass) == CHOOSE step \in Range(ApplierSteps) : StepMessage(step) = pass.err

\* C29 - Pipeline order and atomicity: a cluster pass on a record that is not
\* marked for deletion, once past the pre-check and the finalizer, invokes
\* the applier steps in the order Metadata, Engine, Proxy, Monitoring,
\* PodSchedulingPolicy, Backup, DataSource, DataImport, each once; the child
\* is created or updated only when all eight succeeded; when a step fails
\* the steps invoked end with that step, the child and the status are as
\* before, no write of the child or the status is attempted, and the pass
\* returns an error.
PipelineAtomic ==
    [][last'.ctrl = "cluster"
         => /\ (/\ cluster.exists /\ cluster.engineType = "postgresql"
                /\ ~cluster.deleting
                /\ last'.failedAt \notin {"getCluster", "hookGet", "PreReconcileHook",
                                          "finalizerUpdate"}
                /\ last'.requeueAfter # 5)
                 => StepCalls(last') # <<>>
            /\ StepCalls(last') # <<>>
                 => /\ ~cluster.deleting
                    /\ IsPrefix(StepCalls(last'), ApplierSteps)
                    /\ last'.failedAt # "applier" => StepCalls(last') = ApplierSteps
                    /\ last'.failedAt = "applier"
                         => /\ last'.result = "error"
                            /\ last'.err \in {StepMessage(step) : step \in Range(ApplierSteps)}
                            /\ StepCalls(last')[Len(StepCalls(last'))] = FailedStep(last')
                            /\ child' = child
                            /\ cluster'.status = cluster.status
                            /\ "Status" \notin Range(last'.calls)
                            /\ Range(last'.io) \cap {"create:child", "update:child",
                                                     "update:cluster.status"} = {}
            /\ (child' # child \/ "create:child" \in Range(last'.io))
                 => cluster.deleting \/ (/\ StepCalls(last') = ApplierSteps
                                         /\ last'.failedAt # "applier")]_vars

\* The Monitoring step has just failed on a record with a child: the pass
\* stopped there and the child is the one built before the record changed.
PipelineAborted ==
    /\ last.ctrl = "cluster" /\ last.failedAt = "applier"
    /\ last.err = "failed to apply monitoring"
    /\ StepCalls(last) = <<"Metadata", "Engine", "Proxy", "Monitoring">>
    /\ child.exists /\ ~child.podMonitor
    /\ "monitoring" \in cluster.features

----------------------------------------------------------------------------
(* Progress properties, checked under the fair specifications.              *)

\* The TTL of a finished record runs out while the clock still tells.
TTLRunsOut(o) ==
    /\ o.ttl # Nil
    /\ o.status.completionTime # Nil
         => o.status.completionTime[1] + o.ttl[1] < MaxTime

\* C7 - TTL garbage collection is live: under TTLFairSpec, an operation record
\* stored as Succeeded or Failed with a TTL configured (one that runs out
\* while the clock still tells) is eventually deleted.
TTLCollected ==
    (ops.exists /\ ops.status.phase \in {"Succeeded", "Failed"} /\ TTLRunsOut(ops))
        ~> ~ops.exists

\* C8 - Deletion completes: under FairSpec, a cluster record that is marked
\* for deletion and carries dbaas.io/finalizer eventually loses the finalizer.
DeletionCompletes ==
    (cluster.deleting /\ HasFinalizer(cluster)) ~> ~HasFinalizer(cluster)

\* C17 - Cluster creation: under FairSpec, a cluster record of the supported
\* engine type gets its child with the declared replica count, unless the
\* record is deleted or moved to another engine type first.
ChildEventuallyCreated ==
    (cluster.exists /\ ~cluster.deleting /\ cluster.engineType = "postgresql")
        ~> \/ child.exists /\ child.instances = cluster.clusterSize
           \/ ~cluster.exists
           \/ cluster.deleting
           \/ cluster.engineType # "postgresql"


\* C35 - Convergence reaches child creation: under FairSpec, a cluster record
\* of engine type postgresql that is not marked for deletion and has no child
\* yet, one that declares a restore from a backup included, gets its child,
\* unless the record is deleted or moved to another engine type first.
CreationReached ==
    (/\ cluster.exists /\ ~cluster.deleting
     /\ cluster.engineType = "postgresql"
     /\ ~child.exists)
        ~> \/ child.exists
           \/ ~cluster.exists
           \/ cluster.deleting
           \/ cluster.engineType # "postgresql"


====
